---- MODULE Spec2Model ----
(***************************************************************************)
(* A model of the DEP Framework components: NeuroSolidityAuditor (with the *)
(* ModelIntegration class it embeds), ProofOfHumanism and                  *)
(* EthicalMirrorEngine.  Source texts are TLA+ strings; the regular        *)
(* expressions of the source are written out as matchers on characters.    *)
(* Messages that the source writes in Russian are given in ASCII, because  *)
(* the strings of this module are ASCII; no property depends on their      *)
(* wording.                                                                *)
(***************************************************************************)
EXTENDS Integers, Sequences, FiniteSets, TLC

\* ------------------------------------------------------------------ bounds
\* Largest value of the millisecond clock read by Date.now().
MaxClock == 1
\* Longest vulnerability list in a reply of the external model process.
MaxModelVulns == 1
\* Longest test-case list in a reply of the external model process.
MaxModelTests == 1
\* Denominator of the fractions used for vulnerability_score.
ScoreDenom == 2
\* Largest number of initialize() calls of one component in flight together.
MaxPending == 1

\* ------------------------------------------------------------ text helpers
Char(s, i) == SubSeq(s, i, i)

UpperCaseLetters == "ABCDEFGHIJKLMNOPQRSTUVWXYZ"
LowerCaseLetters == "abcdefghijklmnopqrstuvwxyz"

\* The lower-case letter of each upper-case letter.
LowerCaseOf ==
  [c \in {Char(UpperCaseLetters, k) : k \in 1..26} |->
     Char(LowerCaseLetters, CHOOSE k \in 1..26 : Char(UpperCaseLetters, k) = c)]

ToLowerChar(c) == IF c \in DOMAIN LowerCaseOf THEN LowerCaseOf[c] ELSE c

RECURSIVE ToLower(_)
ToLower(s) ==
  IF Len(s) = 0 THEN ""
  ELSE IF Len(s) = 1 THEN ToLowerChar(s)
  ELSE LET half == Len(s) \div 2
       IN ToLower(SubSeq(s, 1, half)) \o ToLower(SubSeq(s, half + 1, Len(s)))

\* s has the literal lit at position i (case-sensitive).
LitAt(s, i, lit) ==
  /\ i >= 1
  /\ i + Len(lit) - 1 <= Len(s)
  /\ SubSeq(s, i, i + Len(lit) - 1) = lit

\* String.prototype.includes
Includes(s, lit) == \E i \in 1..(Len(s) + 1) : LitAt(s, i, lit)

\* String.prototype.indexOf, 1-based; 0 when lit does not occur.
IndexOf(s, lit) ==
  IF Includes(s, lit)
  THEN CHOOSE i \in 1..(Len(s) + 1) :
         /\ LitAt(s, i, lit)
         /\ \A j \in 1..(i - 1) : ~LitAt(s, j, lit)
  ELSE 0

\* The characters that \s matches (those that can be written here).
IsSpace(c) == c \in {" ", "\t", "\n", "\r", "\f"}

\* The line terminators, which the regular expression dot does not match.
IsLineTerminator(c) == c \in {"\n", "\r"}

\* Position after a greedy \s* that starts at position i.
RECURSIVE SkipSpaces(_, _)
SkipSpaces(s, i) ==
  IF i <= Len(s) /\ IsSpace(Char(s, i)) THEN SkipSpaces(s, i + 1) ELSE i

\* Last position that .* can consume when it starts at position i
\* (i - 1 when it can consume nothing).
RECURSIVE DotEnd(_, _)
DotEnd(s, i) ==
  IF i <= Len(s) /\ ~IsLineTerminator(Char(s, i)) THEN DotEnd(s, i + 1) ELSE i - 1

\* The text that a lookahead (?!.*X) or (?=.*X) can look at from position i.
DotRest(s, i) == SubSeq(s, i, DotEnd(s, i))

\* String.prototype.split("\n")
RECURSIVE SplitLines(_)
SplitLines(s) ==
  LET n == IndexOf(s, "\n")
  IN IF n = 0 THEN <<s>>
     ELSE <<SubSeq(s, 1, n - 1)>> \o SplitLines(SubSeq(s, n + 1, Len(s)))

\* Array.prototype.join("\n")
RECURSIVE JoinLines(_)
JoinLines(ls) ==
  IF Len(ls) = 0 THEN ""
  ELSE IF Len(ls) = 1 THEN ls[1]
  ELSE ls[1] \o "\n" \o JoinLines(Tail(ls))

Max(a, b) == IF a >= b THEN a ELSE b
Min(a, b) == IF a <= b THEN a ELSE b

\* ------------------------------------------- NeuroSolidityAuditor: patterns
\* Object.entries order of vulnerabilityPatterns (the constructor's literal).
VulnerabilityPatternKeys ==
  <<"reentrancy", "integerOverflow", "uncheckedReturn", "txOrigin",
    "unsecuredSelfDestruct">>

\* /(\.\s*call\s*{.*value\s*:.*})(?!.*_mutex)/i on the lower-cased line L:
\* the positions of a closing brace that can end group 1 of a match that
\* starts at position i.
ReentrancyGroupEnds(L, i) ==
  IF ~LitAt(L, i, ".") THEN {}
  ELSE LET p1 == SkipSpaces(L, i + 1)
           p2 == SkipSpaces(L, p1 + 4)
       IN IF ~(LitAt(L, p1, "call") /\ LitAt(L, p2, "{")) THEN {}
          ELSE { k \in 1..Len(L) :
                   /\ LitAt(L, k, "}")
                   /\ \E j \in (p2 + 1)..(DotEnd(L, p2 + 1) + 1) :
                        /\ LitAt(L, j, "value")
                        /\ LET p3 == SkipSpaces(L, j + 5)
                           IN /\ LitAt(L, p3, ":")
                              /\ k >= p3 + 1
                              /\ k <= DotEnd(L, p3 + 1) + 1 }

ReentrancyTest(line) ==
  LET L == ToLower(line)
  IN \E i \in 1..Len(L) : \E k \in ReentrancyGroupEnds(L, i) :
       ~Includes(DotRest(L, k + 1), "_mutex")

\* /(\+\+|\+=|=\s*\+)(?!.*SafeMath)/i : the last position of a match of the
\* group that starts at position i.
IntegerOverflowGroupEnds(L, i) ==
  (IF LitAt(L, i, "++") \/ LitAt(L, i, "+=") THEN {i + 1} ELSE {})
  \cup
  (IF LitAt(L, i, "=") /\ LitAt(L, SkipSpaces(L, i + 1), "+")
   THEN {SkipSpaces(L, i + 1)} ELSE {})

IntegerOverflowTest(line) ==
  LET L == ToLower(line)
  IN \E i \in 1..Len(L) : \E e \in IntegerOverflowGroupEnds(L, i) :
       ~Includes(DotRest(L, e + 1), "safemath")

\* (?=.*require\s*\() looked at from position i.
RequireAhead(L, i) ==
  \E r \in i..(DotEnd(L, i) + 1) :
    /\ LitAt(L, r, "require")
    /\ LitAt(L, SkipSpaces(L, r + 7), "(")

\* /\.call\s*{.*}(?!.*require\s*\()/i
UncheckedReturnTest(line) ==
  LET L == ToLower(line)
  IN \E i \in 1..Len(L) :
       /\ LitAt(L, i, ".call")
       /\ LET p == SkipSpaces(L, i + 5)
          IN /\ LitAt(L, p, "{")
             /\ \E k \in (p + 1)..(DotEnd(L, p + 1) + 1) :
                  /\ LitAt(L, k, "}")
                  /\ ~RequireAhead(L, k + 1)

\* /tx\.origin(?!.*!=)/i
TxOriginTest(line) ==
  LET L == ToLower(line)
  IN \E i \in 1..Len(L) :
       /\ LitAt(L, i, "tx.origin")
       /\ ~Includes(DotRest(L, i + 9), "!=")

\* /selfdestruct|suicide/i
UnsecuredSelfDestructTest(line) ==
  LET L == ToLower(line)
  IN Includes(L, "selfdestruct") \/ Includes(L, "suicide")

\* pattern.test(line) for the pattern registered under vulnName.
PatternTest(vulnName, line) ==
  CASE vulnName = "reentrancy" -> ReentrancyTest(line)
    [] vulnName = "integerOverflow" -> IntegerOverflowTest(line)
    [] vulnName = "uncheckedReturn" -> UncheckedReturnTest(line)
    [] vulnName = "txOrigin" -> TxOriginTest(line)
    [] vulnName = "unsecuredSelfDestruct" -> UnsecuredSelfDestructTest(line)
    [] OTHER -> FALSE


\* ------------------------------------------ NeuroSolidityAuditor: lookups
\* A JavaScript object literal read with obj[key]: an own key gives its
\* value; a key that the literal does not have is looked up on
\* Object.prototype, whose members are functions and objects (truthy); any
\* other key gives undefined.
ObjectPrototypeKeys ==
  {"constructor", "toString", "toLocaleString", "valueOf", "hasOwnProperty",
   "isPrototypeOf", "propertyIsEnumerable", "__proto__"}

Severities == {"critical", "high", "medium", "low", "info"}

getVulnerabilityName(key) ==
  CASE key = "reentrancy" -> "Reentrancy Vulnerability"
    [] key = "integerOverflow" -> "Integer Overflow"
    [] key = "uncheckedReturn" -> "Unchecked Return Value"
    [] key = "txOrigin" -> "tx.origin Authentication"
    [] key = "unsecuredSelfDestruct" -> "Unsecured Self-Destruct"
    [] OTHER -> "Unknown Vulnerability"

getVulnerabilitySeverity(key) ==
  CASE key = "reentrancy" -> "critical"
    [] key = "integerOverflow" -> "high"
    [] key = "uncheckedReturn" -> "medium"
    [] key = "txOrigin" -> "high"
    [] key = "unsecuredSelfDestruct" -> "critical"
    [] OTHER -> "medium"

getVulnerabilityDescription(key) ==
  CASE key = "reentrancy" -> "Reentrancy lets an attacker call the function recursively before the first call ends."
    [] key = "integerOverflow" -> "Integer overflow can lead to unexpected values of variables."
    [] key = "uncheckedReturn" -> "An unchecked return value can lead to unexpected behaviour of the contract."
    [] key = "txOrigin" -> "Using tx.origin for authentication is unsafe and can lead to phishing attacks."
    [] key = "unsecuredSelfDestruct" -> "An unprotected selfdestruct call can let an attacker destroy the contract."
    [] OTHER -> "Unknown vulnerability, manual analysis required."

getVulnerabilityRecommendation(key) ==
  CASE key = "reentrancy" -> "Use the Checks-Effects-Interactions pattern or a mutex against reentrancy attacks."
    [] key = "integerOverflow" -> "Use the SafeMath library for arithmetic operations."
    [] key = "uncheckedReturn" -> "Always check the return values of low-level calls with require()."
    [] key = "txOrigin" -> "Use msg.sender instead of tx.origin for authentication."
    [] key = "unsecuredSelfDestruct" -> "Add access checks before the selfdestruct call."
    [] OTHER -> "Manual analysis and fixing required."

\* The key under which a vulnerability name is registered ("" when none).
KeyOfName(name) ==
  IF \E i \in 1..Len(VulnerabilityPatternKeys) :
       getVulnerabilityName(VulnerabilityPatternKeys[i]) = name
  THEN VulnerabilityPatternKeys[
         CHOOSE i \in 1..Len(VulnerabilityPatternKeys) :
           getVulnerabilityName(VulnerabilityPatternKeys[i]) = name]
  ELSE ""

getVulnerabilityDescriptionByName(name) ==
  getVulnerabilityDescription(KeyOfName(name))

getVulnerabilityRecommendationByName(name) ==
  getVulnerabilityRecommendation(KeyOfName(name))

mapSeverity(severity) ==
  CASE severity = "critical" -> "critical"
    [] severity = "high" -> "high"
    [] severity = "medium" -> "medium"
    [] severity = "low" -> "low"
    [] severity = "info" -> "info"
    [] OTHER -> "medium"

mapSeverityToString(severity) == severity

\* ------------------------------------------- NeuroSolidityAuditor: scoring
\* A JavaScript number that is an integer or NaN.
Num(n) == [nan |-> FALSE, v |-> n]
NaN == [nan |-> TRUE, v |-> 0]

\* severityWeights[severity] || 0.  "number": the registered weight or the
\* default 0; "object": a member inherited from Object.prototype.
SeverityWeight(severity) ==
  CASE severity = "critical" -> [t |-> "number", v |-> 30]
    [] severity = "high" -> [t |-> "number", v |-> 20]
    [] severity = "medium" -> [t |-> "number", v |-> 10]
    [] severity = "low" -> [t |-> "number", v |-> 5]
    [] severity = "info" -> [t |-> "number", v |-> 1]
    [] severity \in ObjectPrototypeKeys -> [t |-> "object", v |-> 0]
    [] OTHER -> [t |-> "number", v |-> 0]

\* totalPenalty after the loop over the severities sevs, which starts with
\* the value acc.  Adding an object to a number, or anything to a string,
\* concatenates: the sum is then a string ("string"), never again a number.
RECURSIVE TotalPenalty(_, _)
TotalPenalty(sevs, acc) ==
  IF Len(sevs) = 0 THEN acc
  ELSE LET w == SeverityWeight(Head(sevs))
       IN TotalPenalty(Tail(sevs),
            IF acc.t = "number" /\ w.t = "number"
            THEN [t |-> "number", v |-> acc.v + w.v]
            ELSE [t |-> "string", v |-> 0])

\* calculateSecurityScore applied to vulnerabilities with the severities
\* sevs, in order.  Math.min of a string that is no numeral is NaN.
calculateSecurityScore(sevs) ==
  IF Len(sevs) = 0 THEN Num(100)
  ELSE LET totalPenalty == TotalPenalty(sevs, [t |-> "number", v |-> 0])
       IN IF totalPenalty.t = "number"
          THEN Num(100 - Min(totalPenalty.v, 100))
          ELSE NaN


\* ---------------------------------------------- source store and clock
\* The contract files of the source store at start.
SourceStore ==
  [p \in {"Drain.sol", "contracts/Bank.sol", "Safe.sol"} |->
     CASE p = "Drain.sol" ->
            "contract Drain {\n  function kill() public {\n    selfdestruct(payable(owner));\n  }\n}"
       [] p = "contracts/Bank.sol" ->
            "function withdraw() public {\n  (bool s,) = msg.sender.call{value: amount}(\"\");\n  total += amount;\n  require(tx.origin == owner);\n}"
       [] OTHER ->
            "contract Safe {\n\n  uint total;\n}"]

\* The paths that callers pass: the stored files and one that does not exist.
Paths == DOMAIN SourceStore \cup {"Missing.sol"}

\* path.basename
RECURSIVE basename(_)
basename(p) ==
  LET n == IndexOf(p, "/")
  IN IF n = 0 THEN p ELSE basename(SubSeq(p, n + 1, Len(p)))

\* ------------------------------------------------- external model process
\* What one run of the external model process gives to ModelIntegration:
\*   kind "error"     the process fails (execAsync rejects);
\*   kind "malformed" stdout is not JSON (JSON.parse throws);
\*   kind "json"      stdout is JSON; the remaining fields describe the value
\*                    (isObject FALSE: the value is null), has<Field> FALSE:
\*                    the field is absent (undefined).
\* vulnerability_score is the fraction scoreK / ScoreDenom.  For the patch
\* action stdout is returned as text.
NoFeatures == [def |-> FALSE, nodes |-> 0, edges |-> 0, depth |-> 0, complexity |-> ""]

ProcessError ==
  [kind |-> "error", isObject |-> FALSE, isArray |-> FALSE,
   hasVulnerabilities |-> FALSE, vulnerabilities |-> <<>>,
   hasScore |-> FALSE, scoreK |-> 0, features |-> NoFeatures,
   tests |-> <<>>, stdout |-> ""]
MalformedJson == [ProcessError EXCEPT !.kind = "malformed"]
JsonNull == [ProcessError EXCEPT !.kind = "json"]
JsonObject == [JsonNull EXCEPT !.isObject = TRUE]

\* Entries of ModelVulnerability.lines; hasContext FALSE: no context field.
ModelLine(n, hasContext, context) ==
  [line_number |-> n, hasContext |-> hasContext, context |-> context]

ModelVulnerabilities ==
  { [name |-> "Reentrancy Vulnerability", severity |-> "critical",
     lines |-> <<ModelLine(2, TRUE, "msg.sender.call{value: amount}")>>],
    [name |-> "Reentrancy Vulnerability", severity |-> "severe",
     lines |-> <<ModelLine(9, FALSE, "")>>],
    [name |-> "Backdoor", severity |-> "info",
     lines |-> <<ModelLine(4, FALSE, ""), ModelLine(2, TRUE, "y")>>] }

\* The sequences over S of length at most n.
SeqsUpTo(S, n) == UNION { [1..m -> S] : m \in 0..n }

ScoreNumerators == {0 - ScoreDenom, 0, 1, 2 * ScoreDenom}

ModelAuditReplies ==
  {ProcessError, MalformedJson, JsonNull}
  \cup { [JsonObject EXCEPT !.hasScore = TRUE] }
  \cup { [JsonObject EXCEPT !.hasVulnerabilities = TRUE, !.vulnerabilities = vs] :
           vs \in SeqsUpTo(ModelVulnerabilities, MaxModelVulns) }
  \cup { [JsonObject EXCEPT !.hasVulnerabilities = TRUE, !.vulnerabilities = vs,
                            !.hasScore = TRUE, !.scoreK = k] :
           vs \in SeqsUpTo(ModelVulnerabilities, MaxModelVulns),
           k \in ScoreNumerators }

\* The result that ModelIntegration.auditContract returns from its catch:
\* vulnerability_score 1.0 and no vulnerabilities.
FailureResult ==
  [JsonObject EXCEPT !.hasVulnerabilities = TRUE, !.hasScore = TRUE,
                     !.scoreK = ScoreDenom]

\* ModelIntegration.auditContract: the value it resolves with (it never
\* rejects).
ModelIntegration_auditContract(reply) ==
  IF reply.kind = "json" THEN reply ELSE FailureResult

\* ------------------------------------------------ auditContract, built in
Snippet(text) == [def |-> TRUE, text |-> text]
UndefinedSnippet == [def |-> FALSE, text |-> ""]

\* The loop of auditContract reporting each rule once, at its first match.
RECURSIVE ScanLoopOncePerRule(_, _, _, _)
ScanLoopOncePerRule(lines, n, t, vulnerabilities) ==
  LET K == Len(VulnerabilityPatternKeys)
  IN IF n >= Len(lines) * K THEN vulnerabilities
     ELSE LET i == n \div K
              vulnName == VulnerabilityPatternKeys[(n % K) + 1]
              codeSnippet ==
                JoinLines(SubSeq(lines, Max(0, i - 2) + 1, Min(Len(lines), i + 3)))
          IN ScanLoopOncePerRule(lines, n + 1, t,
               IF /\ PatternTest(vulnName, lines[i + 1])
                  /\ \A k \in 1..Len(vulnerabilities) :
                       vulnerabilities[k].name # getVulnerabilityName(vulnName)
               THEN Append(vulnerabilities,
                      [id |-> [t |-> t, n |-> Len(vulnerabilities)],
                       name |-> getVulnerabilityName(vulnName),
                       severity |-> getVulnerabilitySeverity(vulnName),
                       description |-> getVulnerabilityDescription(vulnName),
                       lineStart |-> i + 1,
                       lineEnd |-> i + 1,
                       codeSnippet |-> Snippet(codeSnippet),
                       recommendation |-> getVulnerabilityRecommendation(vulnName)])
               ELSE vulnerabilities)

\* The loop of auditContract over lines and patterns, from step n on; step n
\* tests line n \div K (0-based) against pattern n % K, K patterns in all.
\* t is the value of Date.now().
RECURSIVE ScanLoop(_, _, _, _)
ScanLoop(lines, n, t, vulnerabilities) ==
  LET K == Len(VulnerabilityPatternKeys)
  IN IF n >= Len(lines) * K THEN vulnerabilities
     ELSE LET i == n \div K
              vulnName == VulnerabilityPatternKeys[(n % K) + 1]
              codeSnippet ==
                JoinLines(SubSeq(lines, Max(0, i - 2) + 1, Min(Len(lines), i + 3)))
          IN IF PatternTest(vulnName, lines[i + 1])
             THEN ScanLoop(lines, n + 1, t,
                    Append(vulnerabilities,
                        [id |-> [t |-> t, n |-> Len(vulnerabilities)],
                         name |-> getVulnerabilityName(vulnName),
                         severity |-> getVulnerabilitySeverity(vulnName),
                         description |-> getVulnerabilityDescription(vulnName),
                         lineStart |-> i + 1,
                         lineEnd |-> i + 1,
                         codeSnippet |-> Snippet(codeSnippet),
                         recommendation |-> getVulnerabilityRecommendation(vulnName)]))
             ELSE ScanLoop(lines, n + 1, t, vulnerabilities)

SeveritiesOf(vulnerabilities) ==
  [i \in 1..Len(vulnerabilities) |-> vulnerabilities[i].severity]

\* The built-in analyser of auditContract on the text contractCode.
BuiltinAudit(contractCode, contractPath, t) ==
  LET vulnerabilities == ScanLoop(SplitLines(contractCode), 0, t, <<>>)
  IN [contractName |-> basename(contractPath),
      contractPath |-> contractPath,
      vulnerabilities |-> vulnerabilities,
      score |-> calculateSecurityScore(SeveritiesOf(vulnerabilities)),
      timestamp |-> t]

\* --------------------------------------------- convertModelAuditResult
\* Math.round((1 - k / ScoreDenom) * 100); Math.round rounds a half up.
\* (Exact arithmetic: a double whose product falls next to a half may round
\* the other way.)
RoundedScore(k) ==
  ((ScoreDenom - k) * 200 + ScoreDenom) \div (2 * ScoreDenom)

\* modelResult.vulnerabilities.map(...) throws a TypeError when modelResult
\* is null or has no vulnerabilities.
ConvertThrows(modelResult) ==
  ~modelResult.isObject \/ ~modelResult.hasVulnerabilities

ConvertVulnerability(vuln, index, t) ==
  LET n == Len(vuln.lines)
  IN [id |-> [t |-> t, n |-> index],
      name |-> vuln.name,
      severity |-> mapSeverity(vuln.severity),
      description |-> getVulnerabilityDescriptionByName(vuln.name),
      lineStart |-> IF n > 0 THEN vuln.lines[1].line_number ELSE 0,
      lineEnd |-> IF n > 0 THEN vuln.lines[n].line_number ELSE 0,
      codeSnippet |->
        IF n > 0
        THEN (IF vuln.lines[1].hasContext THEN Snippet(vuln.lines[1].context)
              ELSE UndefinedSnippet)
        ELSE Snippet(""),
      recommendation |-> getVulnerabilityRecommendationByName(vuln.name)]

convertModelAuditResult(modelResult, contractPath, t) ==
  LET vulnerabilities ==
        [i \in 1..Len(modelResult.vulnerabilities) |->
           ConvertVulnerability(modelResult.vulnerabilities[i], i - 1, t)]
  IN [contractName |-> basename(contractPath),
      contractPath |-> contractPath,
      vulnerabilities |-> vulnerabilities,
      score |-> IF modelResult.hasScore
                THEN Num(RoundedScore(modelResult.scoreK))
                ELSE calculateSecurityScore(SeveritiesOf(vulnerabilities)),
      timestamp |-> t]

\* ---------------------------------------------------------- auditContract
NoAudit ==
  [contractName |-> "", contractPath |-> "", vulnerabilities |-> <<>>,
   score |-> Num(0), timestamp |-> 0]

Returned(audit) == [outcome |-> "ok", audit |-> audit]
Thrown == [outcome |-> "error", audit |-> NoAudit]

\* auditContract of an auditor with the fields a, on the files of the source
\* store, when the external process gives reply and Date.now() gives t.
auditContract(a, files, contractPath, reply, t) ==
  IF ~a.initialized THEN Thrown
  ELSE LET modelResult == ModelIntegration_auditContract(reply)
       IN IF a.modelIntegration /\ ~ConvertThrows(modelResult)
          THEN Returned(convertModelAuditResult(modelResult, contractPath, t))
          ELSE IF contractPath \notin DOMAIN files THEN Thrown
          ELSE Returned(BuiltinAudit(files[contractPath], contractPath, t))

\* ------------------------------------------------------ generateTestCases
\* The test cases of the external model (ModelTestCase); params is a tag
\* for the parameter object.
ModelTestCases ==
  { [description |-> "deposit at the largest value", function |-> "deposit",
     params |-> "maxValue", expected |-> "revert", edge_case |-> TRUE],
    [description |-> "plain transfer", function |-> "transfer",
     params |-> "transfer100", expected |-> "success", edge_case |-> FALSE] }

\* stdout of the test action: a JSON array of test cases, or a JSON value
\* that is no array (null).
ModelTestReplies ==
  {ProcessError, MalformedJson, JsonNull}
  \cup { [JsonNull EXCEPT !.isArray = TRUE, !.tests = ts] :
           ts \in SeqsUpTo(ModelTestCases, MaxModelTests) }

\* ModelIntegration.generateTestCases: the parsed stdout, or [] from its
\* catch.  The temporary file it writes is removed before it returns.
ModelIntegration_generateTestCases(reply) ==
  IF reply.kind = "json" THEN reply
  ELSE [JsonNull EXCEPT !.isArray = TRUE]

\* Array.prototype.filter(test => test.edge_case)
RECURSIVE FilterEdgeCases(_)
FilterEdgeCases(ts) ==
  IF Len(ts) = 0 THEN <<>>
  ELSE (IF Head(ts).edge_case THEN <<Head(ts)>> ELSE <<>>)
       \o FilterEdgeCases(Tail(ts))

\* expectedOutputs.error is "error" or undefined, written "".
convertModelTestCases(modelTestCases, edgeCasesOnly, t) ==
  LET filteredTestCases ==
        IF edgeCasesOnly THEN FilterEdgeCases(modelTestCases) ELSE modelTestCases
  IN [i \in 1..Len(filteredTestCases) |->
        [id |-> [t |-> t, n |-> i - 1],
         description |-> filteredTestCases[i].description,
         inputs |-> filteredTestCases[i].params,
         expectedOutputs |->
           [success |-> filteredTestCases[i].expected = "success",
            error |-> IF filteredTestCases[i].expected = "revert"
                      THEN "error" ELSE ""],
         edgeCase |-> filteredTestCases[i].edge_case]]

\* The built-in generator of generateTestCases.
BuiltinTestCases(edgeCasesOnly, t) ==
  <<[id |-> [t |-> t, n |-> 1],
     description |-> "Integer overflow check",
     inputs |-> "maxSafeInteger",
     expectedOutputs |-> [success |-> FALSE, error |-> "overflow"],
     edgeCase |-> TRUE],
    [id |-> [t |-> t, n |-> 2],
     description |-> "Reentrancy attack check",
     inputs |-> "attackerValue",
     expectedOutputs |-> [success |-> FALSE, error |-> "reentrancy"],
     edgeCase |-> TRUE]>>
  \o (IF ~edgeCasesOnly
      THEN <<[id |-> [t |-> t, n |-> 3],
              description |-> "Standard token transfer",
              inputs |-> "senderReceiver100",
              expectedOutputs |-> [success |-> TRUE, error |-> ""],
              edgeCase |-> FALSE]>>
      ELSE <<>>)

\* generateTestCases: [outcome, tests].  With the model: a missing file
\* makes readFileSync throw and a value that is no array makes
\* convertModelTestCases throw; both are caught and lead to the built-in
\* generator, which reads the file again.
generateTestCases(a, files, contractPath, edgeCasesOnly, reply, t) ==
  IF ~a.initialized THEN [outcome |-> "error", tests |-> <<>>]
  ELSE IF contractPath \notin DOMAIN files THEN [outcome |-> "error", tests |-> <<>>]
  ELSE LET modelTestCases == ModelIntegration_generateTestCases(reply)
       IN IF a.modelIntegration /\ modelTestCases.isArray
          THEN [outcome |-> "ok",
                tests |-> convertModelTestCases(modelTestCases.tests, edgeCasesOnly, t)]
          ELSE [outcome |-> "ok", tests |-> BuiltinTestCases(edgeCasesOnly, t)]

\* ---------------------------------------------------------- generatePatch
\* stdout of the patch action is returned as text, whatever it is.
ModelPatchReplies ==
  {ProcessError}
  \cup { [JsonNull EXCEPT !.kind = "stdout", !.stdout = out] :
           out \in {"", "require(!_mutex);\n"} }

\* ModelIntegration.generatePatch: stdout, or the comment of its catch (the
\* text of the error follows the colon).
ModelIntegration_generatePatch(reply) ==
  IF reply.kind = "error"
  THEN "// Patch generation error: Error: Command failed"
  ELSE reply.stdout

\* line.replace(/(\.\s*call\s*{.*value\s*:.*})/i, '...$1...'): the leftmost
\* match is replaced, its greedy group reaching the last closing brace.
ReentrancyReplace(line) ==
  LET L == ToLower(line)
      starts == { i \in 1..Len(L) : ReentrancyGroupEnds(L, i) # {} }
  IN IF starts = {} THEN line
     ELSE LET i == CHOOSE m \in starts : \A o \in starts : m <= o
              k == CHOOSE m \in ReentrancyGroupEnds(L, i) :
                     \A o \in ReentrancyGroupEnds(L, i) : m >= o
          IN SubSeq(line, 1, i - 1)
             \o "// DEP Security Patch: Added reentrancy protection\n"
             \o "    require(!_mutex, \"Reentrancy guard\");\n"
             \o "    _mutex = true;\n"
             \o "    " \o SubSeq(line, i, k) \o ";\n"
             \o "    _mutex = false;"
             \o SubSeq(line, k + 1, Len(line))

\* The last position of the match of (\+\+|\+=|=\s*\+) at position i, the
\* alternatives tried in order; 0 when none matches there.
IntegerOverflowMatchEnd(L, i) ==
  IF LitAt(L, i, "++") \/ LitAt(L, i, "+=") THEN i + 1
  ELSE IF LitAt(L, i, "=") /\ LitAt(L, SkipSpaces(L, i + 1), "+")
       THEN SkipSpaces(L, i + 1)
       ELSE 0

\* line.replace(/(\+\+|\+=|=\s*\+)/i, '...')
IntegerOverflowReplace(line) ==
  LET L == ToLower(line)
      starts == { i \in 1..Len(L) : IntegerOverflowMatchEnd(L, i) # 0 }
  IN IF starts = {} THEN line
     ELSE LET i == CHOOSE m \in starts : \A o \in starts : m <= o
          IN SubSeq(line, 1, i - 1)
             \o "// DEP Security Patch: Added SafeMath\n"
             \o "    using SafeMath for uint256;\n"
             \o "    // Replace with: value = value.add(amount);"
             \o SubSeq(line, IntegerOverflowMatchEnd(L, i) + 1, Len(line))

ManualReviewPatch(vulnerability) ==
  "// DEP Security Patch: Please review this vulnerability manually\n"
  \o "// " \o vulnerability.recommendation

\* The built-in generator of generatePatch: [outcome, patch].
\* lines[lineStart - 1] is undefined outside the file, and calling replace
\* on it throws.
BuiltinPatch(vulnerability, contractCode) ==
  LET lines == SplitLines(contractCode)
      inFile == vulnerability.lineStart \in 1..Len(lines)
  IN CASE vulnerability.name = "Reentrancy Vulnerability" ->
            IF inFile
            THEN [outcome |-> "ok",
                  patch |-> ReentrancyReplace(lines[vulnerability.lineStart])]
            ELSE [outcome |-> "error", patch |-> ""]
       [] vulnerability.name = "Integer Overflow" ->
            IF inFile
            THEN [outcome |-> "ok",
                  patch |-> IntegerOverflowReplace(lines[vulnerability.lineStart])]
            ELSE [outcome |-> "error", patch |-> ""]
       [] OTHER -> [outcome |-> "ok", patch |-> ManualReviewPatch(vulnerability)]

\* generatePatch: [outcome, patch].  With the model: a missing file or a
\* vulnerability without codeSnippet makes the try block throw, which is
\* caught and leads to the built-in generator.
generatePatch(a, files, vulnerability, contractPath, reply) ==
  IF ~a.initialized THEN [outcome |-> "error", patch |-> ""]
  ELSE IF contractPath \notin DOMAIN files THEN [outcome |-> "error", patch |-> ""]
  ELSE IF a.modelIntegration /\ vulnerability.codeSnippet.def
       THEN [outcome |-> "ok", patch |-> ModelIntegration_generatePatch(reply)]
       ELSE BuiltinPatch(vulnerability, files[contractPath])

\* ----------------------------------------------------- analyzeASTTopology
ModelFeatures ==
  { NoFeatures,
    [def |-> TRUE, nodes |-> 0, edges |-> 0, depth |-> 0, complexity |-> ""],
    [def |-> TRUE, nodes |-> 12, edges |-> 20, depth |-> 3, complexity |-> "low"] }

ModelASTReplies ==
  {ProcessError, JsonNull}
  \cup { [JsonObject EXCEPT !.features = f] : f \in ModelFeatures }

DefaultAST == [nodes |-> 150, edges |-> 200, depth |-> 8, complexity |-> "medium"]
NoAST == [nodes |-> 0, edges |-> 0, depth |-> 0, complexity |-> ""]

\* result.features?.nodes || 150 and so on: an absent or falsy member (0,
\* "") gives the default.  The failure result of the model has features {}.
\* A null result makes the member access throw, which is caught and leads
\* to the built-in structure.
analyzeASTTopology(a, files, contractPath, reply) ==
  IF ~a.initialized THEN [outcome |-> "error", ast |-> NoAST]
  ELSE IF contractPath \notin DOMAIN files THEN [outcome |-> "error", ast |-> NoAST]
  ELSE LET result == ModelIntegration_auditContract(reply)
           f == result.features
       IN IF a.modelIntegration /\ result.isObject /\ f.def
          THEN [outcome |-> "ok",
                ast |-> [nodes |-> IF f.nodes # 0 THEN f.nodes ELSE 150,
                         edges |-> IF f.edges # 0 THEN f.edges ELSE 200,
                         depth |-> IF f.depth # 0 THEN f.depth ELSE 8,
                         complexity |-> IF f.complexity # "" THEN f.complexity
                                        ELSE "medium"]]
          ELSE [outcome |-> "ok", ast |-> DefaultAST]


\* -------------------------------------------------------- ProofOfHumanism
\* The threshold set by the constructor.
ConstructorThreshold ==
  [value |-> 70, lastUpdated |-> 0, proposedBy |-> "DEP Framework", votes |-> <<>>]

\* The threshold that loadEthicalThreshold sets at time t.
DaoThreshold(t) ==
  [value |-> 75, lastUpdated |-> t, proposedBy |-> "DAO Governance",
   votes |-> <<[validatorId |-> "validator1", vote |-> TRUE],
               [validatorId |-> "validator2", vote |-> TRUE],
               [validatorId |-> "validator3", vote |-> FALSE],
               [validatorId |-> "validator4", vote |-> TRUE]>>]

\* A transaction as the component reads it: txString is
\* JSON.stringify(transaction); hasSignatures FALSE stands for a missing
\* signatures member; each entry of signatures is "null" or "bytes", the
\* signature member of that entry; signature is the hex text of the first
\* signature ("" when there is none).
Transactions ==
  { [txString |-> "{\"memo\":\"Donate to the community fund\",\"to\":\"CharityWallet123\"}",
     hasSignatures |-> TRUE, signatures |-> <<"bytes">>, signature |-> "6d6f636b"],
    [txString |-> "{\"memo\":\"support open public charity\",\"lamports\":500}",
     hasSignatures |-> TRUE, signatures |-> <<"bytes", "null">>, signature |-> "6d6f636b"],
    [txString |-> "{\"memo\":\"drain wallet\",\"lamports\":10000000000}",
     hasSignatures |-> TRUE, signatures |-> <<"bytes">>, signature |-> "6d6f636b"],
    [txString |-> "{\"memo\":\"transparent donation for the ecosystem\"}",
     hasSignatures |-> TRUE, signatures |-> <<>>, signature |-> ""],
    [txString |-> "{\"memo\":\"rent\"}",
     hasSignatures |-> FALSE, signatures |-> <<>>, signature |-> ""] }

NoTransaction ==
  [txString |-> "", hasSignatures |-> FALSE, signatures |-> <<>>, signature |-> ""]

\* The transaction of the component tests.
TestTransaction ==
  CHOOSE tx \in Transactions : Includes(tx.txString, "CharityWallet123")

\* /a|b|c/i .test(text) for the alternatives words (in lower case), L being
\* text in lower case.
AnyWordIn(words, L) == \E w \in words : Includes(L, w)

\* ethicalPatterns and unethicalPatterns of the constructor, one set of
\* alternatives per pattern.
ethicalPatterns ==
  { {"donate", "charity", "support"},
    {"community", "ecosystem", "public"},
    {"transparent", "open", "visible"} }

unethicalPatterns ==
  { {"drain", "steal", "hack"},
    {"attack", "exploit", "vulnerability"},
    {"scam", "fraud", "fake"} }

IsDigit(c) == c \in {"0", "1", "2", "3", "4", "5", "6", "7", "8", "9"}

\* /\d{10,}/ .test(JSON.stringify(transaction))
hasLargeAmounts(transaction) ==
  LET txString == transaction.txString
  IN \E i \in 1..Len(txString) :
       /\ i + 9 <= Len(txString)
       /\ \A k \in i..(i + 9) : IsDigit(Char(txString, k))

involvesEthicalAddresses(transaction) ==
  \E addr \in {"CharityWallet123", "DonationAddress456", "CommunityFund789"} :
    Includes(transaction.txString, addr)

calculateHumanismIndex(transaction) ==
  LET L == ToLower(transaction.txString)
      score ==
        50
        + 10 * Cardinality({ws \in ethicalPatterns : AnyWordIn(ws, L)})
        - 20 * Cardinality({ws \in unethicalPatterns : AnyWordIn(ws, L)})
        - (IF hasLargeAmounts(transaction) THEN 15 ELSE 0)
        + (IF involvesEthicalAddresses(transaction) THEN 15 ELSE 0)
  IN Max(0, Min(100, score))

cryptographicVerify(transaction) ==
  IF ~transaction.hasSignatures \/ Len(transaction.signatures) = 0 THEN FALSE
  ELSE \A i \in 1..Len(transaction.signatures) : transaction.signatures[i] # "null"

NoValidation ==
  [ethicalScore |-> 0, humanismIndex |-> 0, validationResult |-> FALSE,
   validationReason |-> ""]

\* validateTransaction accepting an index that equals the threshold.
validateTransactionAtLeast(p, transaction) ==
  IF ~p.initialized THEN [outcome |-> "error", validation |-> NoValidation]
  ELSE LET humanismIndex == calculateHumanismIndex(transaction)
           validationResult == humanismIndex >= p.ethicalThreshold.value
                               /\ cryptographicVerify(transaction)
       IN [outcome |-> "ok",
           validation |->
             [ethicalScore |-> humanismIndex,
              humanismIndex |-> humanismIndex,
              validationResult |-> validationResult,
              validationReason |-> ""]]

\* validateTransaction of a component with the fields p: [outcome, validation].
validateTransaction(p, transaction) ==
  IF ~p.initialized THEN [outcome |-> "error", validation |-> NoValidation]
  ELSE LET humanismIndex == calculateHumanismIndex(transaction)
           isValid == humanismIndex > p.ethicalThreshold.value
           isCryptographicallyValid == cryptographicVerify(transaction)
           validationResult == isValid /\ isCryptographicallyValid
       IN [outcome |-> "ok",
           validation |->
             [ethicalScore |-> humanismIndex,
              humanismIndex |-> humanismIndex,
              validationResult |-> validationResult,
              validationReason |->
                IF validationResult THEN "meets the ethical and cryptographic requirements"
                ELSE IF ~isValid THEN "does not meet the ethical requirements"
                ELSE "cryptographically incorrect"]]

NoVote ==
  [validatorId |-> "", transactionId |-> "", vote |-> FALSE, ethicalScore |-> 0,
   timestamp |-> 0]

\* submitValidatorVote: [outcome, vote]; transactionId is the hex text of
\* transaction.signature || ''.
submitValidatorVote(p, validatorId, transaction, vote, ethicalScore, t) ==
  IF ~p.initialized THEN [outcome |-> "error", vote |-> NoVote]
  ELSE [outcome |-> "ok",
        vote |-> [validatorId |-> validatorId,
                  transactionId |-> transaction.signature,
                  vote |-> vote,
                  ethicalScore |-> ethicalScore,
                  timestamp |-> t]]

NoThreshold == [value |-> 0, lastUpdated |-> 0, proposedBy |-> "", votes |-> <<>>]

\* proposeNewThreshold without its check of the range 0-100.
proposeNewThresholdUnchecked(p, proposerId, newThreshold, t) ==
  IF ~p.initialized THEN [outcome |-> "error", threshold |-> NoThreshold]
  ELSE [outcome |-> "ok",
        threshold |-> [value |-> newThreshold, lastUpdated |-> t,
                       proposedBy |-> proposerId, votes |-> <<>>]]

\* proposeNewThreshold: [outcome, threshold], the threshold being the
\* proposal returned.
proposeNewThreshold(p, proposerId, newThreshold, t) ==
  IF ~p.initialized THEN [outcome |-> "error", threshold |-> NoThreshold]
  ELSE IF newThreshold < 0 \/ newThreshold > 100
       THEN [outcome |-> "error", threshold |-> NoThreshold]
       ELSE [outcome |-> "ok",
             threshold |-> [value |-> newThreshold, lastUpdated |-> t,
                            proposedBy |-> proposerId, votes |-> <<>>]]

getEthicalThreshold(p) ==
  IF ~p.initialized THEN [outcome |-> "error", threshold |-> NoThreshold]
  ELSE [outcome |-> "ok", threshold |-> p.ethicalThreshold]

\* updateEthicalThreshold without its check of initialized.
updateEthicalThresholdUnguarded(p, newThreshold) ==
  [outcome |-> "ok", p |-> [p EXCEPT !.ethicalThreshold = newThreshold]]

\* updateEthicalThreshold: [outcome, p], p being the fields of the component
\* after the call.
updateEthicalThreshold(p, newThreshold) ==
  IF ~p.initialized THEN [outcome |-> "error", p |-> p]
  ELSE [outcome |-> "ok", p |-> [p EXCEPT !.ethicalThreshold = newThreshold]]

\* The fields of a ProofOfHumanism after its constructor.
NewProofOfHumanism ==
  [initialized |-> FALSE, connection |-> FALSE,
   ethicalThreshold |-> ConstructorThreshold]

\* The exported function validate_transaction: [outcome, result].  It
\* works on a ProofOfHumanism of its own, on which it calls no initialize().
validate_transaction(tx) ==
  LET p == NewProofOfHumanism
      ethicalScore == calculateHumanismIndex(tx)
      THRESHOLD == getEthicalThreshold(p)
  IN IF THRESHOLD.outcome = "error" THEN [outcome |-> "error", result |-> FALSE]
     ELSE [outcome |-> "ok",
           result |-> ethicalScore > THRESHOLD.threshold.value
                      /\ cryptographicVerify(tx)]


\* ---------------------------------------------------- EthicalMirrorEngine
\* A Map as the sequence of its entries <<key, value>> in insertion order.
\* Map.prototype.set keeps the place of a key that is present.
MapSet(m, key, value) ==
  IF \E i \in 1..Len(m) : m[i][1] = key
  THEN [i \in 1..Len(m) |-> IF m[i][1] = key THEN <<key, value>> ELSE m[i]]
  ELSE Append(m, <<key, value>>)

\* initTransformationPatterns
ConstructorTransformationPatterns ==
  <<<<"drain", "protect">>, <<"steal", "audit">>, <<"hack", "secure">>,
    <<"exploit", "validate">>, <<"attack", "defend">>,
    <<"vulnerability", "security">>, <<"scam", "verify">>,
    <<"fraud", "authenticate">>>>

ConstructorSecurityPatterns ==
  <<<<"tx.origin", "msg.sender">>, <<"selfdestruct", "secureDestruct">>,
    <<"suicide", "secureDestruct">>, <<"call.value", "safeTransfer">>,
    <<"assert", "require">>>>

\* The three patterns that initialize() adds are Cyrillic words.  A Cyrillic
\* letter is no word character for \b; here each word is written in Latin
\* letters between two "~", so that its first and last characters are no
\* word characters either.
InitializeTransformationPatterns ==
  <<<<"~kriptoosushitel~", "~anti-drainer shield~">>, <<"~vzlom~", "~zashchita~">>,
    <<"~obhod~", "~proverka~">>>>

\* The characters that \w matches.
WordChars ==
  {"0", "1", "2", "3", "4", "5", "6", "7", "8", "9", "_"}
  \cup {Char(UpperCaseLetters, k) : k \in 1..26}
  \cup {Char(LowerCaseLetters, k) : k \in 1..26}

IsWordChar(c) == c \in WordChars

\* \b between positions i - 1 and i of s.
WordBoundary(s, i) ==
  (i - 1 >= 1 /\ i - 1 <= Len(s) /\ IsWordChar(Char(s, i - 1)))
  # (i >= 1 /\ i <= Len(s) /\ IsWordChar(Char(s, i)))

\* The term, used as the source of a regular expression, matches s at
\* position i: a dot of the term matches any character but a line
\* terminator, every other character of the terms used here matches itself
\* (ignoreCase: up to the case of letters).
TermAt(s, i, term, ignoreCase) ==
  /\ i >= 1
  /\ i + Len(term) - 1 <= Len(s)
  /\ \A k \in 1..Len(term) :
       LET c == Char(s, i + k - 1)
           p == Char(term, k)
       IN IF p = "." THEN ~IsLineTerminator(c)
          ELSE IF ignoreCase THEN ToLowerChar(c) = ToLowerChar(p)
          ELSE c = p

\* new RegExp(`\\b${term}\\b`, 'gi') when wholeWord, new RegExp(term, 'g')
\* otherwise: a match at position i.
PatternAt(s, i, term, wholeWord) ==
  /\ TermAt(s, i, term, wholeWord)
  /\ wholeWord => (WordBoundary(s, i) /\ WordBoundary(s, i + Len(term)))

\* s.match(regex) with the g flag, from position from on: the matched texts,
\* left to right, without overlap (<<>> stands for null).
RECURSIVE GlobalMatches(_, _, _, _)
GlobalMatches(s, from, term, wholeWord) ==
  LET starts == { i \in from..Len(s) : PatternAt(s, i, term, wholeWord) }
  IN IF starts = {} THEN <<>>
     ELSE LET i == CHOOSE m \in starts : \A o \in starts : m <= o
          IN <<SubSeq(s, i, i + Len(term) - 1)>>
             \o GlobalMatches(s, i + Len(term), term, wholeWord)

\* s.replace(match, text) with a string pattern: the first occurrence of
\* match is replaced.
ReplaceFirst(s, match, text) ==
  LET i == IndexOf(s, match)
  IN IF i = 0 THEN s
     ELSE SubSeq(s, 1, i - 1) \o text \o SubSeq(s, i + Len(match), Len(s))

Annotated(kind, match, replacement) ==
  "/* " \o kind \o " transformation: " \o match \o " -> " \o replacement
  \o " */ " \o replacement

\* matches.forEach(...) of one rule: st is [code, transformations].
RECURSIVE ApplyMatches(_, _, _, _, _)
ApplyMatches(st, matches, replacement, type, confidence) ==
  IF Len(matches) = 0 THEN st
  ELSE LET match == Head(matches)
       IN ApplyMatches(
            [code |-> ReplaceFirst(st.code, match,
                        Annotated(IF type = "ethical" THEN "Ethical" ELSE "Security",
                                  match, replacement)),
             transformations |->
               Append(st.transformations,
                      [original |-> match, transformed |-> replacement,
                       type |-> type, confidence |-> confidence])],
            Tail(matches), replacement, type, confidence)

\* One of the two loops of ethicalMirror, over the entries of rules.
RECURSIVE ApplyRules(_, _, _, _)
ApplyRules(st, rules, type, confidence) ==
  IF Len(rules) = 0 THEN st
  ELSE LET matches == GlobalMatches(st.code, 1, Head(rules)[1], type = "ethical")
       IN IF matches = <<>>
          THEN ApplyRules(st, Tail(rules), type, confidence)
          ELSE ApplyRules(
                 ApplyMatches(st, matches, Head(rules)[2], type, confidence),
                 Tail(rules), type, confidence)

NoMirror == [originalCode |-> "", transformedCode |-> "", transformations |-> <<>>]

\* ethicalMirror with the loop of the security patterns before the loop of
\* the ethical ones.
ethicalMirrorSecurityFirst(e, code) ==
  IF ~e.initialized THEN [outcome |-> "error", mirror |-> NoMirror]
  ELSE LET st == ApplyRules(
                   ApplyRules([code |-> code, transformations |-> <<>>],
                              e.securityPatterns, "security", 85),
                   e.transformationPatterns, "ethical", 90)
       IN [outcome |-> "ok",
           mirror |-> [originalCode |-> code,
                       transformedCode |-> st.code,
                       transformations |-> st.transformations]]

\* ethicalMirror of an engine with the fields e: [outcome, mirror].
ethicalMirror(e, code) ==
  IF ~e.initialized THEN [outcome |-> "error", mirror |-> NoMirror]
  ELSE LET st == ApplyRules(
                   ApplyRules([code |-> code, transformations |-> <<>>],
                              e.transformationPatterns, "ethical", 90),
                   e.securityPatterns, "security", 85)
       IN [outcome |-> "ok",
           mirror |-> [originalCode |-> code,
                       transformedCode |-> st.code,
                       transformations |-> st.transformations]]

EthicsSeverity(original) ==
  IF original \in {"drain", "steal", "hack", "scam", "fraud"} THEN "high"
  ELSE IF original \in {"exploit", "attack", "vulnerability"} THEN "medium"
  ELSE "low"

\* The issues of analyzeEthics, one per term of rules that matches code.
RECURSIVE EthicsIssues(_, _)
EthicsIssues(rules, code) ==
  IF Len(rules) = 0 THEN <<>>
  ELSE (IF GlobalMatches(code, 1, Head(rules)[1], TRUE) # <<>>
        THEN <<[term |-> Head(rules)[1],
                severity |-> EthicsSeverity(Head(rules)[1])]>>
        ELSE <<>>)
       \o EthicsIssues(Tail(rules), code)

RECURSIVE EthicsPenalty(_)
EthicsPenalty(issues) ==
  IF Len(issues) = 0 THEN 0
  ELSE (CASE Head(issues).severity = "high" -> 20
          [] Head(issues).severity = "medium" -> 10
          [] OTHER -> 5)
       + EthicsPenalty(Tail(issues))

NoEthics == [ethicalScore |-> 0, issues |-> <<>>]

\* analyzeEthics: [outcome, ethics].
analyzeEthics(e, code) ==
  IF ~e.initialized THEN [outcome |-> "error", ethics |-> NoEthics]
  ELSE LET issues == EthicsIssues(e.transformationPatterns, code)
       IN [outcome |-> "ok",
           ethics |-> [ethicalScore |-> Max(0, Min(100, 100 - EthicsPenalty(issues))),
                       issues |-> issues]]

\* addTransformationPattern: [outcome, e], e being the fields of the engine
\* after the call.
addTransformationPattern(e, original, replacement, type) ==
  IF ~e.initialized THEN [outcome |-> "error", e |-> e]
  ELSE [outcome |-> "ok",
        e |-> IF type = "ethical"
              THEN [e EXCEPT !.transformationPatterns = MapSet(@, original, replacement)]
              ELSE [e EXCEPT !.securityPatterns = MapSet(@, original, replacement)]]

\* The text that saveTransformedCode writes: a header with the number of
\* transformations, then the transformed code.  (The header's date, elapsed
\* time and list of transformations are left out.)
SavedText(result) ==
  "/**\n * transformations: "
  \o (CASE Len(result.transformations) = 0 -> "0"
        [] Len(result.transformations) = 1 -> "1"
        [] OTHER -> "many")
  \o "\n */\n\n" \o result.transformedCode

\* saveTransformedCode: [outcome, files], files being the source store after
\* the call; mkdirSync and writeFileSync create the file with its directory.
saveTransformedCode(e, files, result, outputPath) ==
  IF ~e.initialized THEN [outcome |-> "error", files |-> files]
  ELSE [outcome |-> "ok",
        files |-> [q \in DOMAIN files \cup {outputPath} |->
                     IF q = outputPath THEN SavedText(result) ELSE files[q]]]


\* ------------------------------------------------------------------ state
VARIABLES
  auditor,         \* the fields of the NeuroSolidityAuditor
  auditorPending,  \* its initialize() calls that wait at an await
  poh,             \* the fields of the ProofOfHumanism
  pohPending,      \* its initialize() calls that wait for the threshold load
  eme,             \* the fields of the EthicalMirrorEngine
  fs,              \* the source store: path -> text of the file
  now,             \* the clock that Date.now() reads
  running,         \* the calls of ModelIntegration that wait for their process
  call             \* the last call: its operation, arguments and result

vars == <<auditor, auditorPending, poh, pohPending, eme, fs, now, running, call>>

NoVulnerability ==
  [id |-> [t |-> 0, n |-> 0], name |-> "", severity |-> "info", description |-> "",
   lineStart |-> 0, lineEnd |-> 0, codeSnippet |-> Snippet(""), recommendation |-> ""]

\* The record of a call: comp and op name the operation, outcome is "ok",
\* "error" (the call throws or rejects) or "pending" (an initialize() that
\* waits); path, replyKind, edgeCasesOnly, v, fromAudit are arguments and
\* circumstances, findings is the argument of calculateSecurityScore (the
\* severities of the findings), t is the time of the call, the rest is what
\* it returned.
NoCall ==
  [comp |-> "", op |-> "", outcome |-> "ok", path |-> "", replyKind |-> "",
   edgeCasesOnly |-> FALSE, v |-> NoVulnerability, fromAudit |-> FALSE, t |-> 0,
   findings |-> <<>>, score |-> Num(0),
   audit |-> NoAudit, tests |-> <<>>, patch |-> "", ast |-> NoAST,
   validation |-> NoValidation, vote |-> NoVote, threshold |-> NoThreshold,
   mirror |-> NoMirror, ethics |-> NoEthics, transaction |-> NoTransaction,
   proposal |-> [proposerId |-> "", newThreshold |-> 0], code |-> ""]

\* The three components after construction.
InitComponents ==
  /\ auditor = [initialized |-> FALSE, modelLoaded |-> FALSE,
                contractsDatabase |-> <<>>, modelIntegration |-> FALSE]
  /\ auditorPending = 0
  /\ poh = NewProofOfHumanism
  /\ pohPending = 0
  /\ eme = [initialized |-> FALSE,
            transformationPatterns |-> ConstructorTransformationPatterns,
            securityPatterns |-> ConstructorSecurityPatterns]
  /\ fs = SourceStore
  /\ now = 0
  /\ running = <<>>

Init == InitComponents /\ call = NoCall

\* Date.now() gives t: the clock does not run backwards.
ClockReads(t) == t \in now..MaxClock /\ now' = t

\* ------------------------------------------- NeuroSolidityAuditor actions
StubContracts == <<"ERC20.sol", "ERC721.sol", "Ownable.sol", "SafeMath.sol", "Pausable.sol">>

EndsWith(s, suffix) ==
  Len(s) >= Len(suffix) /\ SubSeq(s, Len(s) - Len(suffix) + 1, Len(s)) = suffix

RECURSIVE FilterSol(_)
FilterSol(files) ==
  IF Len(files) = 0 THEN <<>>
  ELSE (IF EndsWith(Head(files), ".sol") THEN <<Head(files)>> ELSE <<>>)
       \o FilterSol(Tail(files))

\* What loadContractsDatabase finds: no directory, a directory with the
\* listed files, or a directory that cannot be read.
ContractsDirs ==
  { [exists |-> FALSE, readable |-> TRUE, files |-> <<>>],
    [exists |-> TRUE, readable |-> TRUE, files |-> <<"Token.sol", "README.md">>],
    [exists |-> TRUE, readable |-> FALSE, files |-> <<>>] }

\* initialize() up to its first await: an initialized auditor returns at
\* once, otherwise modelIntegration is set and the call waits.
AuditorInitializeStart ==
  /\ IF auditor.initialized
     THEN /\ UNCHANGED <<auditor, auditorPending>>
          /\ call' = [NoCall EXCEPT !.comp = "auditor", !.op = "initialize"]
     ELSE /\ auditorPending < MaxPending
          /\ auditor' = [auditor EXCEPT !.modelIntegration = TRUE]
          /\ auditorPending' = auditorPending + 1
          /\ call' = [NoCall EXCEPT !.comp = "auditor", !.op = "initialize",
                                    !.outcome = "pending"]
  /\ UNCHANGED <<poh, pohPending, eme, fs, now, running>>

\* The rest of a waiting initialize(): the model file is loaded or not, the
\* contracts database is loaded from dir, and initialized is set; a
\* directory that cannot be read makes the call reject before that.
AuditorInitializeFinish(loaded, dir) ==
  /\ auditorPending > 0
  /\ auditorPending' = auditorPending - 1
  /\ IF dir.readable
     THEN /\ auditor' = [auditor EXCEPT
                           !.modelLoaded = @ \/ loaded,
                           !.contractsDatabase =
                             IF dir.exists THEN FilterSol(dir.files) ELSE StubContracts,
                           !.initialized = TRUE]
          /\ call' = [NoCall EXCEPT !.comp = "auditor", !.op = "initialize"]
     ELSE /\ auditor' = [auditor EXCEPT !.modelLoaded = @ \/ loaded]
          /\ call' = [NoCall EXCEPT !.comp = "auditor", !.op = "initialize",
                                    !.outcome = "error"]
  /\ UNCHANGED <<poh, pohPending, eme, fs, now, running>>

AnalyzeASTTopology(contractPath, reply) ==
  /\ LET r == analyzeASTTopology(auditor, fs, contractPath, reply)
     IN call' = [NoCall EXCEPT !.comp = "auditor", !.op = "analyzeASTTopology",
                               !.outcome = r.outcome, !.path = contractPath,
                               !.replyKind = reply.kind, !.ast = r.ast]
  /\ UNCHANGED <<auditor, auditorPending, poh, pohPending, eme, fs, now, running>>

AuditContract(contractPath, reply, t) ==
  /\ ClockReads(t)
  /\ LET r == auditContract(auditor, fs, contractPath, reply, t)
     IN call' = [NoCall EXCEPT !.comp = "auditor", !.op = "auditContract",
                               !.outcome = r.outcome, !.path = contractPath,
                               !.replyKind = reply.kind, !.t = t,
                               !.audit = r.audit]
  /\ UNCHANGED <<auditor, auditorPending, poh, pohPending, eme, fs, running>>

GenerateTestCases(contractPath, edgeCasesOnly, reply, t) ==
  /\ ClockReads(t)
  /\ LET r == generateTestCases(auditor, fs, contractPath, edgeCasesOnly, reply, t)
     IN call' = [NoCall EXCEPT !.comp = "auditor", !.op = "generateTestCases",
                               !.outcome = r.outcome, !.path = contractPath,
                               !.replyKind = reply.kind, !.t = t,
                               !.edgeCasesOnly = edgeCasesOnly,
                               !.tests = r.tests]
  /\ UNCHANGED <<auditor, auditorPending, poh, pohPending, eme, fs, running>>

\* The vulnerabilities that the last call returned, when it was an
\* auditContract that returned.
AuditedVulnerabilities ==
  IF call.op = "auditContract" /\ call.outcome = "ok"
  THEN { call.audit.vulnerabilities[i] : i \in 1..Len(call.audit.vulnerabilities) }
  ELSE {}

\* Vulnerabilities that a caller writes itself.
CallerVulnerabilities ==
  { [id |-> [t |-> 0, n |-> 0], name |-> "Timestamp Dependence", severity |-> "low",
     description |-> "The contract depends on block.timestamp.",
     lineStart |-> 2, lineEnd |-> 2, codeSnippet |-> Snippet("now % 2"),
     recommendation |-> "Do not use block.timestamp as a source of randomness."],
    [id |-> [t |-> 0, n |-> 1], name |-> "Integer Overflow", severity |-> "high",
     description |-> getVulnerabilityDescription("integerOverflow"),
     lineStart |-> 3, lineEnd |-> 3, codeSnippet |-> Snippet("  total += amount;"),
     recommendation |-> getVulnerabilityRecommendation("integerOverflow")] }

\* generatePatch(vulnerability, contractPath); fromAudit records that the
\* vulnerability is one that the last call, auditContract(contractPath),
\* returned.
GeneratePatch(vulnerability, contractPath, reply) ==
  /\ LET r == generatePatch(auditor, fs, vulnerability, contractPath, reply)
     IN call' = [NoCall EXCEPT !.comp = "auditor", !.op = "generatePatch",
                               !.outcome = r.outcome, !.path = contractPath,
                               !.replyKind = reply.kind, !.v = vulnerability,
                               !.fromAudit = (/\ vulnerability \in AuditedVulnerabilities
                                              /\ contractPath = call.path),
                               !.patch = r.patch]
  /\ UNCHANGED <<auditor, auditorPending, poh, pohPending, eme, fs, now, running>>

\* ------------------------------------------------ ProofOfHumanism actions
\* initialize() up to the await of loadEthicalThreshold: an initialized
\* component returns at once, otherwise the connection is made and the call
\* waits for the timer of the load.
\* initialize() up to its await, while fewer than pending calls of it wait.
PohInitializeStartWithin(pending) ==
  /\ IF poh.initialized
     THEN /\ UNCHANGED <<poh, pohPending>>
          /\ call' = [NoCall EXCEPT !.comp = "poh", !.op = "initialize"]
     ELSE /\ pohPending < pending
          /\ poh' = [poh EXCEPT !.connection = TRUE]
          /\ pohPending' = pohPending + 1
          /\ call' = [NoCall EXCEPT !.comp = "poh", !.op = "initialize",
                                    !.outcome = "pending"]
  /\ UNCHANGED <<auditor, auditorPending, eme, fs, now, running>>

PohInitializeStart == PohInitializeStartWithin(MaxPending)

\* The timer of a waiting initialize() fires: loadEthicalThreshold sets the
\* threshold and initialize() sets initialized, with no other call between.
PohInitializeFinish(t) ==
  /\ pohPending > 0
  /\ ClockReads(t)
  /\ pohPending' = pohPending - 1
  /\ poh' = [poh EXCEPT !.ethicalThreshold = DaoThreshold(t), !.initialized = TRUE]
  /\ call' = [NoCall EXCEPT !.comp = "poh", !.op = "initialize", !.t = t]
  /\ UNCHANGED <<auditor, auditorPending, eme, fs, running>>

ValidateTransaction(transaction) ==
  /\ LET r == validateTransaction(poh, transaction)
     IN call' = [NoCall EXCEPT !.comp = "poh", !.op = "validateTransaction",
                               !.outcome = r.outcome, !.validation = r.validation,
                               !.transaction = transaction]
  /\ UNCHANGED <<auditor, auditorPending, poh, pohPending, eme, fs, now, running>>

SubmitValidatorVote(validatorId, transaction, vote, ethicalScore, t) ==
  /\ ClockReads(t)
  /\ LET r == submitValidatorVote(poh, validatorId, transaction, vote, ethicalScore, t)
     IN call' = [NoCall EXCEPT !.comp = "poh", !.op = "submitValidatorVote",
                               !.outcome = r.outcome, !.t = t, !.vote = r.vote]
  /\ UNCHANGED <<auditor, auditorPending, poh, pohPending, eme, fs, running>>

\* proposeNewThreshold that puts its proposal in force.
ProposeNewThresholdInForce(proposerId, newThreshold, t) ==
  /\ ClockReads(t)
  /\ LET r == proposeNewThreshold(poh, proposerId, newThreshold, t)
     IN /\ call' = [NoCall EXCEPT !.comp = "poh", !.op = "proposeNewThreshold",
                                  !.outcome = r.outcome, !.t = t,
                                  !.threshold = r.threshold,
                                  !.proposal = [proposerId |-> proposerId,
                                                newThreshold |-> newThreshold]]
        /\ poh' = IF r.outcome = "ok"
                  THEN [poh EXCEPT !.ethicalThreshold = r.threshold]
                  ELSE poh
  /\ UNCHANGED <<auditor, auditorPending, pohPending, eme, fs, running>>

ProposeNewThreshold(proposerId, newThreshold, t) ==
  /\ ClockReads(t)
  /\ LET r == proposeNewThreshold(poh, proposerId, newThreshold, t)
     IN call' = [NoCall EXCEPT !.comp = "poh", !.op = "proposeNewThreshold",
                               !.outcome = r.outcome, !.t = t,
                               !.threshold = r.threshold,
                               !.proposal = [proposerId |-> proposerId,
                                             newThreshold |-> newThreshold]]
  /\ UNCHANGED <<auditor, auditorPending, poh, pohPending, eme, fs, running>>

GetEthicalThreshold ==
  /\ LET r == getEthicalThreshold(poh)
     IN call' = [NoCall EXCEPT !.comp = "poh", !.op = "getEthicalThreshold",
                               !.outcome = r.outcome, !.threshold = r.threshold]
  /\ UNCHANGED <<auditor, auditorPending, poh, pohPending, eme, fs, now, running>>

UpdateEthicalThreshold(newThreshold) ==
  /\ LET r == updateEthicalThreshold(poh, newThreshold)
     IN /\ poh' = r.p
        /\ call' = [NoCall EXCEPT !.comp = "poh", !.op = "updateEthicalThreshold",
                                  !.outcome = r.outcome,
                                  !.threshold = newThreshold]
  /\ UNCHANGED <<auditor, auditorPending, pohPending, eme, fs, now, running>>

\* validate_transaction(tx): the result is in call.validation.validationResult.
ValidateTransactionExported(tx) ==
  /\ LET r == validate_transaction(tx)
     IN call' = [NoCall EXCEPT !.comp = "poh", !.op = "validate_transaction",
                               !.outcome = r.outcome,
                               !.validation = [NoValidation EXCEPT
                                                 !.validationResult = r.result],
                               !.transaction = tx]
  /\ UNCHANGED <<auditor, auditorPending, poh, pohPending, eme, fs, now, running>>

\* Thresholds that a caller writes itself.
CallerThreshold(value) ==
  [value |-> value, lastUpdated |-> 0, proposedBy |-> "Test", votes |-> <<>>]

\* The proposal that the last call returned, when it was a
\* proposeNewThreshold that returned.
ProposedThresholds ==
  IF call.op = "proposeNewThreshold" /\ call.outcome = "ok"
  THEN {call.threshold} ELSE {}

\* --------------------------------------------- EthicalMirrorEngine actions
\* initialize() has no await: it runs in one step.
EmeInitialize ==
  /\ IF eme.initialized
     THEN UNCHANGED eme
     ELSE eme' = [eme EXCEPT
                    !.transformationPatterns =
                      MapSet(MapSet(MapSet(@,
                        InitializeTransformationPatterns[1][1],
                        InitializeTransformationPatterns[1][2]),
                        InitializeTransformationPatterns[2][1],
                        InitializeTransformationPatterns[2][2]),
                        InitializeTransformationPatterns[3][1],
                        InitializeTransformationPatterns[3][2]),
                    !.initialized = TRUE]
  /\ call' = [NoCall EXCEPT !.comp = "eme", !.op = "initialize"]
  /\ UNCHANGED <<auditor, auditorPending, poh, pohPending, fs, now, running>>

EthicalMirror(code) ==
  /\ LET r == ethicalMirror(eme, code)
     IN call' = [NoCall EXCEPT !.comp = "eme", !.op = "ethicalMirror",
                               !.outcome = r.outcome, !.mirror = r.mirror,
                               !.code = code]
  /\ UNCHANGED <<auditor, auditorPending, poh, pohPending, eme, fs, now, running>>

AnalyzeEthics(code) ==
  /\ LET r == analyzeEthics(eme, code)
     IN call' = [NoCall EXCEPT !.comp = "eme", !.op = "analyzeEthics",
                               !.outcome = r.outcome, !.ethics = r.ethics,
                               !.mirror = [NoMirror EXCEPT !.originalCode = code],
                               !.code = code]
  /\ UNCHANGED <<auditor, auditorPending, poh, pohPending, eme, fs, now, running>>

SaveTransformedCode(result, outputPath) ==
  /\ LET r == saveTransformedCode(eme, fs, result, outputPath)
     IN /\ fs' = r.files
        /\ call' = [NoCall EXCEPT !.comp = "eme", !.op = "saveTransformedCode",
                                  !.outcome = r.outcome, !.path = outputPath]
  /\ UNCHANGED <<auditor, auditorPending, poh, pohPending, eme, now, running>>

AddTransformationPattern(original, replacement, type) ==
  /\ LET r == addTransformationPattern(eme, original, replacement, type)
     IN /\ eme' = r.e
        /\ call' = [NoCall EXCEPT !.comp = "eme", !.op = "addTransformationPattern",
                                  !.outcome = r.outcome]
  /\ UNCHANGED <<auditor, auditorPending, poh, pohPending, fs, now, running>>

\* The result that the last call returned, when it was an ethicalMirror
\* that returned.
MirroredResults ==
  IF call.op = "ethicalMirror" /\ call.outcome = "ok" THEN {call.mirror} ELSE {}

\* A result that a caller writes itself.
CallerMirror ==
  [originalCode |-> "steal()", transformedCode |-> "audit()",
   transformations |-> <<[original |-> "steal", transformed |-> "audit",
                          type |-> "ethical", confidence |-> 90]>>]

\* ---------------------------------------------------------- specifications
\* The three components together, each operation with a few arguments.
Next ==
  \/ AuditorInitializeStart
  \/ AuditorInitializeFinish(FALSE, CHOOSE d \in ContractsDirs : ~d.exists)
  \/ \E reply \in {ProcessError, JsonObject} :
       AnalyzeASTTopology("Drain.sol", reply)
  \/ \E reply \in {ProcessError, JsonNull} : \E t \in 0..MaxClock :
       AuditContract("Drain.sol", reply, t)
  \/ \E reply \in {ProcessError, JsonNull} : \E t \in 0..MaxClock :
       GenerateTestCases("Drain.sol", FALSE, reply, t)
  \/ \E v \in CallerVulnerabilities \cup AuditedVulnerabilities :
       GeneratePatch(v, "Drain.sol", ProcessError)
  \/ PohInitializeStart
  \/ \E t \in 0..MaxClock : PohInitializeFinish(t)
  \/ ValidateTransaction(TestTransaction)
  \/ \E t \in 0..MaxClock :
       SubmitValidatorVote("validator1", TestTransaction, TRUE, 90, t)
  \/ \E t \in 0..MaxClock : ProposeNewThreshold("TestProposer", 85, t)
  \/ GetEthicalThreshold
  \/ UpdateEthicalThreshold(CallerThreshold(80))
  \/ EmeInitialize
  \/ EthicalMirror("function drainWallet() { steal(funds); }")
  \/ AnalyzeEthics("function drainWallet() { steal(funds); }")
  \/ SaveTransformedCode(CallerMirror, "out/Mirror.sol")
  \/ AddTransformationPattern("testPattern", "testReplacement", "ethical")

Spec == Init /\ [][Next]_vars

\* The NeuroSolidityAuditor alone, with every reply of the external model
\* process.
NextAuditor ==
  \/ AuditorInitializeStart
  \/ \E loaded \in BOOLEAN : \E dir \in ContractsDirs :
       AuditorInitializeFinish(loaded, dir)
  \/ \E contractPath \in Paths : \E reply \in ModelASTReplies :
       AnalyzeASTTopology(contractPath, reply)
  \/ \E contractPath \in Paths : \E reply \in ModelAuditReplies :
       \E t \in 0..MaxClock : AuditContract(contractPath, reply, t)
  \/ \E contractPath \in Paths : \E edgeCasesOnly \in BOOLEAN :
       \E reply \in ModelTestReplies : \E t \in 0..MaxClock :
         GenerateTestCases(contractPath, edgeCasesOnly, reply, t)
  \/ \E v \in CallerVulnerabilities \cup AuditedVulnerabilities :
       \E contractPath \in Paths : \E reply \in ModelPatchReplies :
         GeneratePatch(v, contractPath, reply)

SpecAuditor == Init /\ [][NextAuditor]_vars

\* calculateSecurityScore alone: a list of findings is chosen, given by the
\* severities of its findings, and the scorer is applied to it.  The
\* severities are those of the Severity type, a text that is no severity,
\* and the name of a member that every object inherits.
MaxFindings == 4

ScoreSeverities == Severities \cup {"bogus", "constructor"}

InitScore ==
  /\ InitComponents
  /\ \E sevs \in SeqsUpTo(ScoreSeverities, MaxFindings) :
       call = [NoCall EXCEPT !.comp = "auditor", !.op = "findings",
                             !.findings = sevs]

CalculateSecurityScore ==
  /\ call.op = "findings"
  /\ call' = [call EXCEPT !.op = "calculateSecurityScore",
                          !.score = calculateSecurityScore(call.findings)]
  /\ UNCHANGED <<auditor, auditorPending, poh, pohPending, eme, fs, now, running>>

NextScore == CalculateSecurityScore

SpecScore == InitScore /\ [][NextScore]_vars

\* The EthicalMirrorEngine alone, with more texts and added patterns.
\* The texts given to ethicalMirror and analyzeEthics.
MirrorCodes ==
  { "function drainWallet() { steal(funds); }",
    "function testPattern() {}",
    "drain(); Steal();",
    "say ~obman~ now",
    "x~vzlom~x",
    "hack(); assert(tx.origin);",
    "tx_origin = a;",
    "steal(a); steal(b);",
    "pay()" }

\* The patterns given to addTransformationPattern: [original, replacement,
\* type].  "~obman~" stands for a Cyrillic word, as in
\* InitializeTransformationPatterns.
AddedPatterns ==
  { [original |-> "testPattern", replacement |-> "testReplacement", type |-> "ethical"],
    [original |-> "~obman~", replacement |-> "honesty", type |-> "ethical"],
    [original |-> "pay", replacement |-> "safePay", type |-> "security"] }

\* The transformed code of the last call, when it was an ethicalMirror of
\* one of MirrorCodes that returned: a caller mirrors the output once more.
MirroredCodes ==
  IF call.op = "ethicalMirror" /\ call.outcome = "ok"
     /\ call.mirror.originalCode \in MirrorCodes
  THEN {call.mirror.transformedCode} ELSE {}

NextMirror ==
  \/ EmeInitialize
  \/ \E code \in MirrorCodes \cup MirroredCodes : EthicalMirror(code)
  \/ \E code \in MirrorCodes : AnalyzeEthics(code)
  \/ \E a \in AddedPatterns :
       AddTransformationPattern(a.original, a.replacement, a.type)

SpecMirror == Init /\ [][NextMirror]_vars

\* The ProofOfHumanism alone, with more arguments and with two calls of
\* initialize() that may wait together.
MaxPohPending == 2

\* The values given to proposeNewThreshold.
ProposedValues == {0 - 5, 0, 85, 100, 150}

NextPoH ==
  \/ PohInitializeStartWithin(MaxPohPending)
  \/ \E t \in 0..MaxClock : PohInitializeFinish(t)
  \/ \E transaction \in Transactions : ValidateTransaction(transaction)
  \/ \E transaction \in Transactions : ValidateTransactionExported(transaction)
  \/ \E t \in 0..MaxClock :
       SubmitValidatorVote("validator1", TestTransaction, TRUE, 90, t)
  \/ \E v \in ProposedValues : \E t \in 0..MaxClock :
       ProposeNewThreshold("TestProposer", v, t)
  \/ GetEthicalThreshold
  \/ \E newThreshold \in {CallerThreshold(80), CallerThreshold(150)}
                          \cup ProposedThresholds :
       UpdateEthicalThreshold(newThreshold)

SpecPoH == Init /\ [][NextPoH]_vars

\* --------------------------------------- calls of ModelIntegration in steps
\* generateTestCases and generatePatch of ModelIntegration write temporary
\* files, wait for the external process and remove the files.  Here such a
\* call is taken in its steps, so that two calls can wait together.
MaxRunning == 2

\* path.join(os.tmpdir(), `temp_${Date.now()}.sol`)
TempFile(t) == "/tmp/temp_" \o ToString(t) \o ".sol"

\* path.join(os.tmpdir(), `vuln_${Date.now()}.json`)
VulnFile(t) == "/tmp/vuln_" \o ToString(t) \o ".json"

\* JSON.stringify(modelVulnerability), written as the members that tell the
\* vulnerabilities of CallerVulnerabilities apart.
VulnerabilityJson(vulnerability) ==
  "{\"name\":\"" \o vulnerability.name \o "\",\"severity\":\""
  \o mapSeverityToString(vulnerability.severity) \o "\"}"

\* files with the text written to path.
WriteFile(files, path, text) ==
  [f \in DOMAIN files \cup {path} |-> IF f = path THEN text ELSE files[f]]

\* files after if (fs.existsSync(p)) fs.unlinkSync(p) for the paths.
UnlinkFiles(files, paths) == [f \in DOMAIN files \ paths |-> files[f]]

\* The sequence without its i-th element.
RemoveAt(seq, i) == SubSeq(seq, 1, i - 1) \o SubSeq(seq, i + 1, Len(seq))

\* generateTestCases(contractPath, edgeCasesOnly) of an initialized auditor
\* with a model integration, up to the await of ModelIntegration's
\* generateTestCases: the contract is read and written to the temporary file
\* named after the clock.
GenerateTestCasesStart(contractPath, edgeCasesOnly, t) ==
  /\ auditor.initialized /\ auditor.modelIntegration
  /\ contractPath \in DOMAIN fs
  /\ Len(running) < MaxRunning
  /\ ClockReads(t)
  /\ fs' = WriteFile(fs, TempFile(t), fs[contractPath])
  /\ running' = Append(running,
       [op |-> "generateTestCases", path |-> contractPath,
        edgeCasesOnly |-> edgeCasesOnly, v |-> NoVulnerability,
        sourceCode |-> fs[contractPath], tempFile |-> TempFile(t),
        vulnJson |-> "", vulnFile |-> "",
        process |-> "started", contractRead |-> "", vulnRead |-> ""])
  /\ call' = [NoCall EXCEPT !.comp = "auditor", !.op = "generateTestCases",
                            !.outcome = "pending", !.path = contractPath,
                            !.edgeCasesOnly = edgeCasesOnly, !.t = t]
  /\ UNCHANGED <<auditor, auditorPending, poh, pohPending, eme>>

\* generatePatch(vulnerability, contractPath) up to the await of
\* ModelIntegration's generatePatch: the clock is read once for each of the
\* two temporary files.
GeneratePatchStart(vulnerability, contractPath, t, t2) ==
  /\ auditor.initialized /\ auditor.modelIntegration
  /\ contractPath \in DOMAIN fs
  /\ vulnerability.codeSnippet.def
  /\ Len(running) < MaxRunning
  /\ t \in now..MaxClock /\ t2 \in t..MaxClock /\ now' = t2
  /\ fs' = WriteFile(WriteFile(fs, TempFile(t), fs[contractPath]),
                     VulnFile(t2), VulnerabilityJson(vulnerability))
  /\ running' = Append(running,
       [op |-> "generatePatch", path |-> contractPath,
        edgeCasesOnly |-> FALSE, v |-> vulnerability,
        sourceCode |-> fs[contractPath], tempFile |-> TempFile(t),
        vulnJson |-> VulnerabilityJson(vulnerability), vulnFile |-> VulnFile(t2),
        process |-> "started", contractRead |-> "", vulnRead |-> ""])
  /\ call' = [NoCall EXCEPT !.comp = "auditor", !.op = "generatePatch",
                            !.outcome = "pending", !.path = contractPath,
                            !.v = vulnerability, !.t = t]
  /\ UNCHANGED <<auditor, auditorPending, poh, pohPending, eme>>

\* The external process of the i-th waiting call opens the files named on
\* its command line: it reads what they hold now, or fails when the
\* contract file is gone.
ModelProcessReads(i) ==
  /\ i \in 1..Len(running)
  /\ running[i].process = "started"
  /\ running' =
       [running EXCEPT ![i] =
          IF running[i].tempFile \notin DOMAIN fs
          THEN [@ EXCEPT !.process = "failed"]
          ELSE [@ EXCEPT !.process = "read",
                         !.contractRead = fs[running[i].tempFile],
                         !.vulnRead = IF running[i].vulnFile \in DOMAIN fs
                                      THEN fs[running[i].vulnFile] ELSE ""]]
  /\ UNCHANGED <<auditor, auditorPending, poh, pohPending, eme, fs, now, call>>

\* The process of the i-th waiting call ends with reply: the finally block
\* removes the temporary files of the call that still exist, and the call
\* returns what the whole operation returns for that reply.
ModelCallFinish(i, reply, t) ==
  /\ i \in 1..Len(running)
  /\ ClockReads(t)
  /\ fs' = UnlinkFiles(fs, {running[i].tempFile, running[i].vulnFile})
  /\ running' = RemoveAt(running, i)
  /\ IF running[i].op = "generateTestCases"
     THEN LET r == generateTestCases(auditor, fs, running[i].path,
                                     running[i].edgeCasesOnly, reply, t)
          IN call' = [NoCall EXCEPT !.comp = "auditor", !.op = "generateTestCases",
                                    !.outcome = r.outcome, !.path = running[i].path,
                                    !.replyKind = reply.kind, !.t = t,
                                    !.edgeCasesOnly = running[i].edgeCasesOnly,
                                    !.tests = r.tests]
     ELSE LET r == generatePatch(auditor, fs, running[i].v, running[i].path, reply)
          IN call' = [NoCall EXCEPT !.comp = "auditor", !.op = "generatePatch",
                                    !.outcome = r.outcome, !.path = running[i].path,
                                    !.replyKind = reply.kind, !.v = running[i].v,
                                    !.patch = r.patch]
  /\ UNCHANGED <<auditor, auditorPending, poh, pohPending, eme>>

\* The NeuroSolidityAuditor with calls of generateTestCases and
\* generatePatch that overlap.
NextTemp ==
  \/ AuditorInitializeStart
  \/ AuditorInitializeFinish(FALSE, CHOOSE d \in ContractsDirs : ~d.exists)
  \/ \E contractPath \in {"Drain.sol", "Safe.sol"} : \E t \in 0..MaxClock :
       GenerateTestCasesStart(contractPath, FALSE, t)
  \/ \E v \in CallerVulnerabilities : \E t \in 0..MaxClock : \E t2 \in 0..MaxClock :
       GeneratePatchStart(v, "Drain.sol", t, t2)
  \/ \E i \in 1..MaxRunning : ModelProcessReads(i)
  \/ \E i \in 1..MaxRunning : \E t \in 0..MaxClock :
       ModelCallFinish(i, ProcessError, t)

SpecTemp == Init /\ [][NextTemp]_vars

\* ------------------------------------------------ the built-in scanner alone
\* The built-in scanner on texts of a few lines: a contract file "Scan.sol"
\* is written with any text of at most MaxScanLines of ScanLines, and the
\* model process prints null, so that auditContract runs its built-in
\* analyser.
MaxScanLines == 3

ScanLines ==
  { "",
    "  x.call{value: 1}(\"\");",
    "require(tx.origin == owner);",
    "selfdestruct(a); i++;" }

\* A contract file comes to be in the source store (it is written once).
WriteContract(contractPath, lines) ==
  /\ contractPath \notin DOMAIN fs
  /\ fs' = WriteFile(fs, contractPath, JoinLines(lines))
  /\ UNCHANGED <<auditor, auditorPending, poh, pohPending, eme, now, running, call>>

NextScan ==
  \/ AuditorInitializeStart
  \/ AuditorInitializeFinish(FALSE, CHOOSE d \in ContractsDirs : ~d.exists)
  \/ \E lines \in SeqsUpTo(ScanLines, MaxScanLines) \ {<<>>} :
       WriteContract("Scan.sol", lines)
  \/ \E t \in 0..MaxClock : AuditContract("Scan.sol", JsonNull, t)

SpecScan == Init /\ [][NextScan]_vars

\* Chained ethical rules for the rule order of ethicalMirror: the
\* replacement of one is the term of another.  "~obman~" stands for a
\* Cyrillic word.
OrderPatterns ==
  { [original |-> "testPattern", replacement |-> "testReplacement"],
    [original |-> "testReplacement", replacement |-> "ok"],
    [original |-> "~obman~", replacement |-> "honesty"],
    [original |-> "honesty", replacement |-> "fair"] }

OrderCodes == { "function testPattern() {}", "say ~obman~ now", "pay()" }

NextOrder ==
  \/ EmeInitialize
  \/ \E a \in OrderPatterns :
       AddTransformationPattern(a.original, a.replacement, "ethical")
  \/ \E code \in OrderCodes : EthicalMirror(code)

SpecOrder == Init /\ [][NextOrder]_vars

\* ------------------------------------------------------------ properties
\* The last call was op on the component comp.
Called(comp, op) == call.comp = comp /\ call.op = op

\* The last call was auditContract on an initialized auditor.
Audited == Called("auditor", "auditContract") /\ auditor.initialized

\* C1: on an initialized auditor, when the external model process fails
\* (process error or malformed JSON on stdout), auditContract of an existing
\* file does not raise an error and returns the result of the built-in
\* path: the findings of the pattern scanner over the file and the score
\* that the severity-weight scorer computes from them.
C1_FallbackOnModelFailure ==
  (Audited /\ call.replyKind \in {"error", "malformed"} /\ call.path \in DOMAIN fs)
  => /\ call.outcome = "ok"
     /\ call.audit = BuiltinAudit(fs[call.path], call.path, call.t)

\* C1's case: the model process failed on an existing file.
C1_ModelFailed ==
  /\ Audited /\ call.replyKind = "error" /\ call.path = "contracts/Bank.sol"
  /\ call.outcome = "ok"

\* C2: every AuditResult that auditContract returns has a vulnerabilities
\* list (never null), and its score is 100 if and only if that list is
\* empty.
C2_ScoreHundredIffEmpty ==
  (Audited /\ call.outcome = "ok")
  => (call.audit.score = Num(100) <=> call.audit.vulnerabilities = <<>>)

\* C2's case: a result with an empty list.
C2_EmptyResult ==
  Audited /\ call.outcome = "ok" /\ call.audit.vulnerabilities = <<>>

\* C3: the score of every AuditResult that auditContract returns lies in
\* [0,100], whatever vulnerability_score the external model returns and
\* whatever the built-in path finds.
C3_ScoreInRange ==
  (Audited /\ call.outcome = "ok")
  => (~call.audit.score.nan /\ call.audit.score.v \in 0..100)

\* C3's case: a result converted from a reply of the model that has a
\* vulnerability_score.
C3_ModelScored ==
  Audited /\ call.outcome = "ok" /\ call.replyKind = "json"
  /\ call.audit.score.v \notin {0, 100}

\* C4: auditContract(path) on an initialized auditor fails with an error
\* whenever path does not resolve to a readable file; it never returns an
\* AuditResult for a missing file.
C4_MissingFileFails ==
  (Audited /\ call.path \notin DOMAIN fs) => call.outcome = "error"

\* C4's case: auditContract of a path that is no file.
C4_MissingFileAudited == Audited /\ call.path \notin DOMAIN fs

\* The public operations that check initialized.
AuditorOps ==
  {"analyzeASTTopology", "auditContract", "generateTestCases", "generatePatch"}
PohOps ==
  {"validateTransaction", "submitValidatorVote", "proposeNewThreshold",
   "getEthicalThreshold", "updateEthicalThreshold"}
EmeOps ==
  {"ethicalMirror", "analyzeEthics", "saveTransformedCode",
   "addTransformationPattern"}

\* C5: every public operation of the NeuroSolidityAuditor, the
\* ProofOfHumanism and the EthicalMirrorEngine that is called before the
\* component's initialize() has completed fails with an error and leaves
\* the component's state (threshold, rule tables, initialized flag)
\* unchanged.
C5_UninitializedCallFails ==
  [][ /\ (call'.comp = "auditor" /\ call'.op \in AuditorOps /\ ~auditor.initialized)
         => (call'.outcome = "error" /\ auditor' = auditor)
      /\ (call'.comp = "poh" /\ call'.op \in PohOps /\ ~poh.initialized)
         => (call'.outcome = "error" /\ poh' = poh)
      /\ (call'.comp = "eme" /\ call'.op \in EmeOps /\ ~eme.initialized)
         => (call'.outcome = "error" /\ eme' = eme /\ fs' = fs) ]_vars

\* C5's case: updateEthicalThreshold was called while initialize() waited
\* for the threshold load; it failed and the constructor's threshold stays.
C5_CalledWhilePending ==
  /\ Called("poh", "updateEthicalThreshold")
  /\ pohPending > 0 /\ ~poh.initialized
  /\ call.outcome = "error"
  /\ poh.ethicalThreshold = ConstructorThreshold

\* C6: for a contract file that has a line with the text selfdestruct,
\* auditContract on an initialized auditor returns at least one
\* vulnerability of the self-destruct rule with severity critical, and a
\* score below 100.
C6_SelfDestructFound ==
  (Audited /\ call.path \in DOMAIN fs /\ Includes(fs[call.path], "selfdestruct"))
  => /\ call.outcome = "ok"
     /\ \E i \in 1..Len(call.audit.vulnerabilities) :
          /\ call.audit.vulnerabilities[i].name
               = getVulnerabilityName("unsecuredSelfDestruct")
          /\ call.audit.vulnerabilities[i].severity = "critical"
     /\ ~call.audit.score.nan
     /\ call.audit.score.v < 100

\* C6's case: the audit of a file with a selfdestruct line returned.
C6_SelfDestructAudited ==
  Audited /\ call.path = "Drain.sol" /\ call.outcome = "ok"

\* The weights that C7 states.
ClaimedWeight(severity) ==
  CASE severity = "critical" -> 30
    [] severity = "high" -> 20
    [] severity = "medium" -> 10
    [] severity = "low" -> 5
    [] severity = "info" -> 1
    [] OTHER -> 0

RECURSIVE ClaimedPenalty(_)
ClaimedPenalty(sevs) ==
  IF Len(sevs) = 0 THEN 0 ELSE ClaimedWeight(Head(sevs)) + ClaimedPenalty(Tail(sevs))

RuleNames ==
  { getVulnerabilityName(VulnerabilityPatternKeys[i]) :
      i \in 1..Len(VulnerabilityPatternKeys) }

\* C8: generatePatch(v, path) on an initialized auditor, for a vulnerability
\* v whose name is none of the rule names, never throws and returns a
\* non-empty text that contains v.recommendation.  (Stated for the paths
\* that are files.)
C8_UnrecognizedRulePatch ==
  ( /\ Called("auditor", "generatePatch") /\ auditor.initialized
    /\ call.path \in DOMAIN fs
    /\ call.v.name \notin RuleNames )
  => /\ call.outcome = "ok"
     /\ call.patch # ""
     /\ Includes(call.patch, call.v.recommendation)

\* C8's case: a patch was asked for a vulnerability of an unknown rule.
C8_UnrecognizedPatched ==
  /\ Called("auditor", "generatePatch") /\ auditor.initialized
  /\ call.path \in DOMAIN fs
  /\ call.v.name = "Timestamp Dependence"
  /\ call.outcome = "ok"

\* C9: for every vulnerability v in the result of auditContract(path),
\* generatePatch(v, path) on the same file returns a non-empty string,
\* whatever the external model process does.
C9_PatchForAuditedVulnerability ==
  (Called("auditor", "generatePatch") /\ call.fromAudit /\ call.path \in DOMAIN fs)
  => (call.outcome = "ok" /\ call.patch # "")

\* C9's case: a patch for a vulnerability of the last audit, the model
\* process having succeeded.
C9_AuditedPatched ==
  /\ Called("auditor", "generatePatch") /\ call.fromAudit
  /\ call.path \in DOMAIN fs
  /\ call.replyKind = "stdout"
  /\ call.outcome = "ok"

\* C10: for an existing contract file, generateTestCases(path) on an
\* initialized auditor returns a non-empty list of test cases, whatever the
\* external model process does (success, process error, malformed output).
C10_TestCasesNonEmpty ==
  ( /\ Called("auditor", "generateTestCases") /\ auditor.initialized
    /\ call.path \in DOMAIN fs /\ ~call.edgeCasesOnly )
  => (call.outcome = "ok" /\ call.tests # <<>>)

\* C10's case: test cases were asked for an existing file and the model
\* process failed.
C10_ModelFailed ==
  /\ Called("auditor", "generateTestCases") /\ auditor.initialized
  /\ call.path \in DOMAIN fs /\ ~call.edgeCasesOnly
  /\ call.replyKind = "error"
  /\ call.outcome = "ok"

\* ------------------------------------------- EthicalMirrorEngine properties
\* The text of the technical proposal.
ProposalExample == "function drainWallet() { steal(funds); }"

\* The engine has been initialized and nothing was added to its tables.
BuiltInTables ==
  /\ eme.initialized
  /\ eme.transformationPatterns =
       ConstructorTransformationPatterns \o InitializeTransformationPatterns
  /\ eme.securityPatterns = ConstructorSecurityPatterns

\* The last call was ethicalMirror and it returned.
Mirrored == Called("eme", "ethicalMirror") /\ call.outcome = "ok"

\* The originals of the records of a transformations list, in lower case.
TransformedTerms(transformations) ==
  { ToLower(transformations[k].original) : k \in 1..Len(transformations) }

\* C11: ethicalMirror of "function drainWallet() { steal(funds); }" on an
\* initialized engine with the built-in rule tables returns a
\* transformedCode that contains both "protect" and "audit", and a
\* transformations list of length at least 2.
C11_ExampleMirrored ==
  (Called("eme", "ethicalMirror") /\ BuiltInTables
   /\ call.mirror.originalCode = ProposalExample)
  => /\ call.outcome = "ok"
     /\ Includes(call.mirror.transformedCode, "protect")
     /\ Includes(call.mirror.transformedCode, "audit")
     /\ Len(call.mirror.transformations) >= 2

\* C11's case: the example has been mirrored with the built-in tables, and
\* "steal" has been replaced.
C11_ExampleTransformed ==
  /\ Mirrored /\ BuiltInTables
  /\ call.mirror.originalCode = ProposalExample
  /\ Includes(call.mirror.transformedCode, "audit")

\* C12: analyzeEthics of "function drainWallet() { steal(funds); }" on an
\* initialized engine with the built-in vocabulary reports an ethicalScore
\* below 100 and issues for the term "drain" and for the term "steal".
C12_ExampleIssues ==
  (Called("eme", "analyzeEthics") /\ BuiltInTables
   /\ call.mirror.originalCode = ProposalExample)
  => /\ call.outcome = "ok"
     /\ call.ethics.ethicalScore < 100
     /\ \E k \in 1..Len(call.ethics.issues) : call.ethics.issues[k].term = "drain"
     /\ \E k \in 1..Len(call.ethics.issues) : call.ethics.issues[k].term = "steal"

\* C12's case: the example has been analysed with the built-in vocabulary
\* and its score is below 100.
C12_ExampleAnalysed ==
  /\ Called("eme", "analyzeEthics") /\ BuiltInTables
  /\ call.mirror.originalCode = ProposalExample
  /\ call.outcome = "ok" /\ call.ethics.ethicalScore < 100

\* A letter or digit of any script, or "_": a word character, or "~", which
\* stands for a Cyrillic letter.
IsLetter(c) == IsWordChar(c) \/ c = "~"

\* term occurs in s as a whole word: with no letter next to it on either
\* side.
OccursAsWord(s, term) ==
  \E i \in 1..Len(s) :
    /\ LitAt(s, i, term)
    /\ i > 1 => ~IsLetter(Char(s, i - 1))
    /\ i + Len(term) <= Len(s) => ~IsLetter(Char(s, i + Len(term)))

\* The ethical patterns of AddedPatterns that the engine holds.
AddedEthical ==
  { a \in AddedPatterns :
      /\ a.type = "ethical"
      /\ \E k \in 1..Len(eme.transformationPatterns) :
           eme.transformationPatterns[k] = <<a.original, a.replacement>> }

\* C13: after addTransformationPattern(term, replacement) with the default
\* kind (ethical) on an initialized engine, ethicalMirror of any text in
\* which term occurs as a whole word returns a transformedCode that contains
\* replacement and a transformations list with a record for that term.
C13_AddedPatternApplied ==
  Called("eme", "ethicalMirror")
  => \A a \in AddedEthical :
       OccursAsWord(call.mirror.originalCode, a.original)
       => /\ call.outcome = "ok"
          /\ Includes(call.mirror.transformedCode, a.replacement)
          /\ ToLower(a.original) \in TransformedTerms(call.mirror.transformations)

\* C13's case: a text with an added term as a whole word has been mirrored,
\* and the term has been replaced.
C13_AddedTermMirrored ==
  /\ Mirrored
  /\ \E a \in AddedEthical :
       /\ OccursAsWord(call.mirror.originalCode, a.original)
       /\ Includes(call.mirror.transformedCode, a.replacement)

\* C14: ethicalMirror is not idempotent.  With the built-in rule tables,
\* when a text on which ethicalMirror produced at least one transformation
\* is mirrored again, the second call produces at least one transformation
\* and a text that differs from its input; a text on which ethicalMirror
\* produces no transformation is returned unchanged.
C14_NotIdempotent ==
  [][(Mirrored /\ BuiltInTables /\ Called("eme", "ethicalMirror")'
      /\ call'.mirror.originalCode = call.mirror.transformedCode)
     => /\ call'.outcome = "ok"
        /\ IF call.mirror.transformations # <<>>
           THEN /\ call'.mirror.transformations # <<>>
                /\ call'.mirror.transformedCode # call.mirror.transformedCode
           ELSE /\ call.mirror.transformedCode = call.mirror.originalCode
                /\ call'.mirror.transformedCode = call.mirror.transformedCode]_vars

\* C14's case: a text has been transformed, and its transformed text has
\* been mirrored again and transformed again.
C14_MirroredTwice ==
  /\ Mirrored /\ BuiltInTables
  /\ \E code \in MirrorCodes :
       /\ ethicalMirror(eme, code).mirror.transformations # <<>>
       /\ call.mirror.originalCode = ethicalMirror(eme, code).mirror.transformedCode
  /\ call.mirror.transformations # <<>>
  /\ call.mirror.transformedCode # call.mirror.originalCode

\* ----------------------------------------------- ProofOfHumanism properties
\* The step is a call of op on a ProofOfHumanism that is initialized when
\* the call is made.
PohCalls(op) == poh.initialized /\ Called("poh", op)'

\* C15: proposeNewThreshold(proposer, v) on an initialized ProofOfHumanism
\* with v < 0 or v > 100 fails with an error and leaves the current ethical
\* threshold unchanged; the boundary values 0 and 100 are accepted.
C15_OutOfRangeRejected ==
  [][PohCalls("proposeNewThreshold")
     => /\ (call'.proposal.newThreshold < 0 \/ call'.proposal.newThreshold > 100)
           => /\ call'.outcome = "error"
              /\ poh'.ethicalThreshold = poh.ethicalThreshold
        /\ call'.proposal.newThreshold \in {0, 100} => call'.outcome = "ok"]_vars

\* C15's case: a proposal of 150 has been refused by an initialized
\* component.
C15_ProposedOutOfRange ==
  /\ poh.initialized /\ Called("poh", "proposeNewThreshold")
  /\ call.proposal.newThreshold = 150
  /\ call.outcome = "error"

\* C17: proposeNewThreshold(proposer, v) with 0 <= v <= 100, on an
\* initialized ProofOfHumanism, returns a proposal whose value is v, whose
\* proposedBy is proposer and whose votes list is empty, and does not change
\* the threshold that getEthicalThreshold returns.
C17_ProposalReturned ==
  [][(PohCalls("proposeNewThreshold") /\ call'.proposal.newThreshold \in 0..100)
     => /\ call'.outcome = "ok"
        /\ call'.threshold.value = call'.proposal.newThreshold
        /\ call'.threshold.proposedBy = call'.proposal.proposerId
        /\ call'.threshold.votes = <<>>
        /\ getEthicalThreshold(poh') = getEthicalThreshold(poh)]_vars

\* C17's case: a proposal of 85 has been returned while the threshold in
\* force has another value.
C17_Proposed ==
  /\ poh.initialized /\ Called("poh", "proposeNewThreshold")
  /\ call.outcome = "ok" /\ call.threshold.value = 85
  /\ getEthicalThreshold(poh).threshold.value # 85

\* C16: on an initialized ProofOfHumanism, getEthicalThreshold returns the
\* argument of the most recent updateEthicalThreshold call, or the
\* DAO-loaded threshold (value 75) if there was none: the component becomes
\* initialized with the value 75, updateEthicalThreshold puts its argument
\* in force, getEthicalThreshold returns the threshold in force, and no
\* other operation (validateTransaction, submitValidatorVote,
\* proposeNewThreshold, a repeated initialize) changes it.
C16_ThresholdInForce ==
  [][/\ (~poh.initialized /\ poh'.initialized)
        => poh'.ethicalThreshold.value = DaoThreshold(now').value
     /\ poh.initialized
        => /\ IF Called("poh", "updateEthicalThreshold")'
              THEN poh'.ethicalThreshold = call'.threshold
              ELSE poh'.ethicalThreshold = poh.ethicalThreshold
           /\ Called("poh", "getEthicalThreshold")'
              => /\ call'.outcome = "ok"
                 /\ call'.threshold = poh.ethicalThreshold]_vars

\* C16's case: updateEthicalThreshold has put a threshold of 80 in force
\* while a second initialize() is still waiting.
C16_UpdatedWhilePending ==
  /\ poh.initialized /\ Called("poh", "updateEthicalThreshold")
  /\ call.outcome = "ok" /\ poh.ethicalThreshold.value = 80
  /\ pohPending > 0

\* C18: validate_transaction(tx) returns a boolean for every transaction:
\* true exactly when the humanism index of tx is strictly greater than the
\* value of the ethical threshold of its ProofOfHumanism and the signature
\* check passes.
C18_ValidateTransactionBoolean ==
  Called("poh", "validate_transaction")
  => /\ call.outcome = "ok"
     /\ call.validation.validationResult
        = (/\ calculateHumanismIndex(call.transaction)
              > NewProofOfHumanism.ethicalThreshold.value
           /\ cryptographicVerify(call.transaction))

\* C18's case: validate_transaction has been called with a signed
\* transaction whose humanism index is above the threshold.
C18_EthicalTransactionGiven ==
  /\ Called("poh", "validate_transaction")
  /\ calculateHumanismIndex(call.transaction)
     > NewProofOfHumanism.ethicalThreshold.value
  /\ cryptographicVerify(call.transaction)

\* -------------------------------------------------- overlapping model calls
\* C19: calls that overlap in time share no mutable state.  While
\* generateTestCases or generatePatch calls are in flight together, the
\* temporary files of a call whose process has not read them yet exist and
\* hold what that call wrote (no other call has overwritten or deleted
\* them), and a process that has read its files has read the source text
\* (and the vulnerability) of its own call.
C19_TemporaryFilesPrivate ==
  \A i \in 1..Len(running) :
    LET c == running[i]
    IN /\ c.process # "failed"
       /\ c.process = "started"
          => /\ c.tempFile \in DOMAIN fs /\ fs[c.tempFile] = c.sourceCode
             /\ c.op = "generatePatch"
                => (c.vulnFile \in DOMAIN fs /\ fs[c.vulnFile] = c.vulnJson)
       /\ c.process = "read"
          => (c.contractRead = c.sourceCode /\ c.vulnRead = c.vulnJson)

\* C19's case: two calls on different sources are in flight together and
\* the process of each has read its files.
C19_TwoCallsInFlight ==
  /\ Len(running) = 2
  /\ running[1].sourceCode # running[2].sourceCode
  /\ running[1].process = "read" /\ running[2].process = "read"

\* The ids of the findings of an AuditResult.
FindingIds(audit) ==
  { audit.vulnerabilities[k].id : k \in 1..Len(audit.vulnerabilities) }

\* C20: finding ids are unique.  No two findings of one AuditResult share
\* an id, and the findings of the AuditResults of two auditContract
\* invocations, one after the other, share no id.
C20_FindingIdsUnique ==
  [][(Audited' /\ call'.outcome = "ok")
     => /\ \A j, k \in 1..Len(call'.audit.vulnerabilities) :
             j # k => call'.audit.vulnerabilities[j].id
                      # call'.audit.vulnerabilities[k].id
        /\ (Audited /\ call.outcome = "ok")
           => FindingIds(call.audit) \cap FindingIds(call'.audit) = {}]_vars

\* C20's case: an audit has returned a result with several findings.
C20_SeveralFindings ==
  /\ Audited /\ call.outcome = "ok"
  /\ Len(call.audit.vulnerabilities) >= 2

\* --------------------------------------------------- the built-in scanner
\* The pairs <<i, r>> of a 0-based line index and a rule, ordered by i and
\* then by rule registration order.
ScanPairs(lines) ==
  [n \in 1..(Len(lines) * Len(VulnerabilityPatternKeys)) |->
     <<(n - 1) \div Len(VulnerabilityPatternKeys),
       VulnerabilityPatternKeys[((n - 1) % Len(VulnerabilityPatternKeys)) + 1]>>]

\* The pair's rule matches the pair's line.
ScanPairMatches(lines, pair) == PatternTest(pair[2], lines[pair[1] + 1])

\* What the claim says of the finding of a pair.
ClaimedFinding(lines, pair) ==
  [lineStart |-> pair[1] + 1,
   lineEnd |-> pair[1] + 1,
   severity |-> getVulnerabilitySeverity(pair[2]),
   codeSnippet |->
     Snippet(JoinLines(SubSeq(lines, Max(0, pair[1] - 2) + 1,
                              Min(Len(lines) - 1, pair[1] + 2) + 1)))]

RECURSIVE ClaimedFindings(_, _)
ClaimedFindings(lines, pairs) ==
  IF Len(pairs) = 0 THEN <<>>
  ELSE (IF ScanPairMatches(lines, Head(pairs))
        THEN <<ClaimedFinding(lines, Head(pairs))>> ELSE <<>>)
       \o ClaimedFindings(lines, Tail(pairs))

\* The members of the findings that the claim speaks of.
FindingFacts(vulnerabilities) ==
  [k \in 1..Len(vulnerabilities) |->
     [lineStart |-> vulnerabilities[k].lineStart,
      lineEnd |-> vulnerabilities[k].lineEnd,
      severity |-> vulnerabilities[k].severity,
      codeSnippet |-> vulnerabilities[k].codeSnippet]]

\* The last call was an auditContract of "Scan.sol" that returned the result
\* of the built-in scanner.
Scanned ==
  /\ Audited /\ call.outcome = "ok"
  /\ call.path = "Scan.sol" /\ call.replyKind = "json"

C22_FindingWellFormed ==
  (Audited /\ call.outcome = "ok")
  => \A k \in 1..Len(call.audit.vulnerabilities) :
       /\ call.audit.vulnerabilities[k].lineEnd
          >= call.audit.vulnerabilities[k].lineStart
       /\ call.audit.vulnerabilities[k].lineStart >= 1
       /\ call.audit.vulnerabilities[k].severity
          \in {"critical", "high", "medium", "low", "info"}

\* C22's case: a finding has been converted from a model vulnerability
\* whose severity string ("severe") is none of the five.
C22_ConvertedFinding ==
  /\ Audited /\ call.outcome = "ok" /\ call.replyKind = "json"
  /\ \E k \in 1..Len(call.audit.vulnerabilities) :
       /\ call.audit.vulnerabilities[k].lineStart = 9
       /\ call.audit.vulnerabilities[k].severity = "medium"

\* ----------------------------------------------------- validateTransaction
\* One of the words occurs in the text, whatever the case of its letters.
GroupMatches(words, text) == \E w \in words : Includes(ToLower(text), w)

\* 1 when the condition holds, 0 when it does not.
Count(condition) == IF condition THEN 1 ELSE 0

\* The number of sets of words of groups that match the text.
RECURSIVE MatchedGroups(_, _)
MatchedGroups(groups, text) ==
  IF groups = {} THEN 0
  ELSE LET g == CHOOSE x \in groups : TRUE
       IN Count(GroupMatches(g, text)) + MatchedGroups(groups \ {g}, text)

\* The text has a run of ten digits.
TenDigitsIn(text) ==
  \E i \in 1..Len(text) :
    \E j \in 1..Len(text) :
      /\ j - i >= 9
      /\ \A k \in i..j : Char(text, k) \in {"0", "1", "2", "3", "4", "5", "6", "7", "8", "9"}

\* The index that the claim states.
ClaimedIndex(tx) ==
  LET raw == 50
             + 10 * MatchedGroups(ethicalPatterns, tx.txString)
             - 20 * MatchedGroups(unethicalPatterns, tx.txString)
             - 15 * Count(TenDigitsIn(tx.txString))
             + 15 * Count(\E addr \in {"CharityWallet123", "DonationAddress456",
                                       "CommunityFund789"} :
                            Includes(tx.txString, addr))
  IN IF raw < 0 THEN 0 ELSE IF raw > 100 THEN 100 ELSE raw

\* The transaction has at least one signature and none of them is null.
ClaimedSigned(tx) ==
  /\ tx.hasSignatures
  /\ Len(tx.signatures) >= 1
  /\ \A k \in 1..Len(tx.signatures) : tx.signatures[k] # "null"

\* C23: validateTransaction(tx) on an initialized ProofOfHumanism returns
\* validationResult = true if and only if the humanism index of tx is
\* strictly greater than the current threshold value and tx has at least
\* one signature with every signature non-null; ethicalScore equals
\* humanismIndex and lies in [0,100]; the index is the clamped sum of 50,
\* 10 per matched ethical group, -20 per matched unethical group, -15 for a
\* number of ten or more digits and 15 for a known ethical address; the call
\* does not change the threshold.
C23_ValidationResult ==
  [][PohCalls("validateTransaction")
     => /\ call'.outcome = "ok"
        /\ call'.validation.humanismIndex = ClaimedIndex(call'.transaction)
        /\ call'.validation.ethicalScore = call'.validation.humanismIndex
        /\ call'.validation.ethicalScore \in 0..100
        /\ call'.validation.validationResult
           = (/\ ClaimedIndex(call'.transaction) > poh.ethicalThreshold.value
              /\ ClaimedSigned(call'.transaction))
        /\ poh'.ethicalThreshold = poh.ethicalThreshold]_vars

\* C23's case: a signed transaction whose index equals the threshold in
\* force has been refused.
C23_IndexAtThreshold ==
  /\ poh.initialized /\ Called("poh", "validateTransaction")
  /\ call.outcome = "ok"
  /\ ClaimedSigned(call.transaction)
  /\ call.validation.humanismIndex = poh.ethicalThreshold.value
  /\ ~call.validation.validationResult

\* -------------------------------------------------- passes of ethicalMirror
\* The text s from position from on, with every whole-word, case-insensitive
\* occurrence of term replaced, where it stands, by its annotated text.
RECURSIVE EachOccurrenceAnnotated(_, _, _, _)
EachOccurrenceAnnotated(s, from, term, replacement) ==
  LET starts == { i \in from..Len(s) : PatternAt(s, i, term, TRUE) }
  IN IF starts = {} THEN SubSeq(s, from, Len(s))
     ELSE LET i == CHOOSE m \in starts : \A o \in starts : m <= o
          IN SubSeq(s, from, i - 1)
             \o Annotated("Ethical", SubSeq(s, i, i + Len(term) - 1), replacement)
             \o EachOccurrenceAnnotated(s, i + Len(term), term, replacement)

\* Rule k is the only rule of the engine with a match in code, and no other
\* rule matches the text that the pass of rule k is to produce.
OnlyRuleMatching(k, code) ==
  LET term == eme.transformationPatterns[k][1]
      out == EachOccurrenceAnnotated(code, 1, term,
                                     eme.transformationPatterns[k][2])
  IN /\ GlobalMatches(code, 1, term, TRUE) # <<>>
     /\ \A j \in 1..Len(eme.transformationPatterns) :
          j # k => /\ GlobalMatches(code, 1, eme.transformationPatterns[j][1], TRUE) = <<>>
                   /\ GlobalMatches(out, 1, eme.transformationPatterns[j][1], TRUE) = <<>>
     /\ \A j \in 1..Len(eme.securityPatterns) :
          /\ GlobalMatches(code, 1, eme.securityPatterns[j][1], FALSE) = <<>>
          /\ GlobalMatches(out, 1, eme.securityPatterns[j][1], FALSE) = <<>>

\* C24: in the pass of one ethical rule of ethicalMirror, every whole-word,
\* case-insensitive occurrence of the rule's term that is in the text at the
\* start of the pass is itself replaced by "/* Ethical transformation:
\* <match> -> <replacement> */ <replacement>", and exactly one record is
\* appended per occurrence; when the term occurs twice or more, none of the
\* original occurrences remains un-annotated.  (Stated for the texts in
\* which one rule alone has matches, where the result of ethicalMirror is
\* the result of that pass.)
C24_EachOccurrenceReplaced ==
  Mirrored
  => \A k \in 1..Len(eme.transformationPatterns) :
       OnlyRuleMatching(k, call.mirror.originalCode)
       => /\ call.mirror.transformedCode
             = EachOccurrenceAnnotated(call.mirror.originalCode, 1,
                                       eme.transformationPatterns[k][1],
                                       eme.transformationPatterns[k][2])
          /\ Len(call.mirror.transformations)
             = Len(GlobalMatches(call.mirror.originalCode, 1,
                                 eme.transformationPatterns[k][1], TRUE))

\* C24's case: a text in which one rule alone matches, twice, has been
\* mirrored, with one record per occurrence.
C24_TermTwice ==
  /\ Mirrored
  /\ \E k \in 1..Len(eme.transformationPatterns) :
       /\ OnlyRuleMatching(k, call.mirror.originalCode)
       /\ Len(GlobalMatches(call.mirror.originalCode, 1,
                            eme.transformationPatterns[k][1], TRUE)) = 2
  /\ Len(call.mirror.transformations) = 2

\* The place in the rule table rules of the rule that made the record: its
\* term matches the whole of the record's original and its replacement is
\* the record's transformed.
RuleIndex(rules, record) ==
  CHOOSE k \in 1..Len(rules) :
    /\ Len(rules[k][1]) = Len(record.original)
    /\ PatternAt(record.original, 1, rules[k][1], record.type = "ethical")
    /\ rules[k][2] = record.transformed

RulesOfKind(type) ==
  IF type = "ethical" THEN eme.transformationPatterns ELSE eme.securityPatterns

\* C25: in the transformations list that ethicalMirror returns, every
\* ethical record precedes every security record, the records of one kind
\* are grouped by rule in rule registration order, every ethical record has
\* confidence 90 and every security record confidence 85; originalCode is
\* the input text.
C25_RecordOrder ==
  Mirrored
  => LET T == call.mirror.transformations
     IN /\ call.mirror.originalCode = call.code
        /\ \A i \in 1..Len(T) :
             /\ T[i].type \in {"ethical", "security"}
             /\ T[i].confidence = (IF T[i].type = "ethical" THEN 90 ELSE 85)
        /\ \A i, j \in 1..Len(T) :
             i < j => /\ ~(T[i].type = "security" /\ T[j].type = "ethical")
                      /\ T[i].type = T[j].type
                         => RuleIndex(RulesOfKind(T[i].type), T[i])
                            <= RuleIndex(RulesOfKind(T[j].type), T[j])

\* C25's case: a result with records of both kinds.
C25_BothKinds ==
  /\ Mirrored
  /\ \E i, j \in 1..Len(call.mirror.transformations) :
       /\ call.mirror.transformations[i].type = "ethical"
       /\ call.mirror.transformations[j].type = "security"

\* The record was made by the j-th security rule.
MadeBySecurityRule(record, j) ==
  /\ record.type = "security"
  /\ RuleIndex(eme.securityPatterns, record) = j

\* The text that the transformation of the record put into the code.
InsertedText(record) ==
  Annotated(IF record.type = "ethical" THEN "Ethical" ELSE "Security",
            record.original, record.transformed)

\* C26: a security rule of ethicalMirror fires only where its registered
\* term occurs in the text as a literal, case-sensitive substring: when the
\* exact character sequence of the term (e.g. "tx.origin") is neither in
\* the input nor in a text that another rule inserted, the result has no
\* record of that rule, and a text on which no rule made a record is
\* returned as it was.
C26_SecurityRuleLiteral ==
  Mirrored
  => LET T == call.mirror.transformations
     IN /\ \A j \in 1..Len(eme.securityPatterns) :
             (/\ ~Includes(call.code, eme.securityPatterns[j][1])
              /\ \A i \in 1..Len(T) :
                   ~MadeBySecurityRule(T[i], j)
                   => ~Includes(InsertedText(T[i]), eme.securityPatterns[j][1]))
             => \A i \in 1..Len(T) : ~MadeBySecurityRule(T[i], j)
        /\ T = <<>> => call.mirror.transformedCode = call.code

\* C26's case: a text without the character sequence "tx.origin" but with
\* "tx_origin" has been mirrored.
C26_NoLiteralTerm ==
  /\ Mirrored
  /\ ~Includes(call.code, "tx.origin")
  /\ Includes(call.code, "tx_origin")

\* The registered ethical terms that occur in code as a whole word, in any
\* letter case.
TermsOccurring(code) ==
  { eme.transformationPatterns[k][1] : k \in
      { j \in 1..Len(eme.transformationPatterns) :
          OccursAsWord(ToLower(code), ToLower(eme.transformationPatterns[j][1])) } }

\* The number of issues of the given severity.
SeverityCount(issues, severity) ==
  Cardinality({ k \in 1..Len(issues) : issues[k].severity = severity })

\* The result of analyzeEthics(code) is what C27 describes.
EthicsAsClaimed(code, ethics) ==
  LET issues == ethics.issues
  IN /\ { issues[k].term : k \in 1..Len(issues) } = TermsOccurring(code)
     /\ \A k, l \in 1..Len(issues) : issues[k].term = issues[l].term => k = l
     /\ \A k \in 1..Len(issues) :
          issues[k].severity =
            (IF issues[k].term \in {"drain", "steal", "hack", "scam", "fraud"}
             THEN "high"
             ELSE IF issues[k].term \in {"exploit", "attack", "vulnerability"}
             THEN "medium" ELSE "low")
     /\ ethics.ethicalScore =
          Max(0, 100 - 20 * SeverityCount(issues, "high")
                     - 10 * SeverityCount(issues, "medium")
                     - 5 * SeverityCount(issues, "low"))
     /\ ethics.ethicalScore = 100 <=> issues = <<>>
     /\ ethics.ethicalScore \in 0..100

\* C27: analyzeEthics on an initialized engine returns exactly one issue per
\* registered ethical term that occurs at least once as a whole word, in
\* any letter case, whatever the number of occurrences; the severity is
\* high for drain, steal, hack, scam and fraud, medium for exploit, attack
\* and vulnerability, low for the other terms; ethicalScore is
\* max(0, 100 - 20 * #high - 10 * #medium - 5 * #low), 100 exactly when
\* there is no issue, and within 0..100; the call changes neither table.
C27_EthicsIssues ==
  [][(eme.initialized /\ Called("eme", "analyzeEthics")')
     => /\ call'.outcome = "ok"
        /\ EthicsAsClaimed(call'.code, call'.ethics)
        /\ eme' = eme]_vars

\* C27's case: a text in which registered terms occur as whole words, one
\* of them twice, has been analysed.
C27_TermAnalysed ==
  /\ Called("eme", "analyzeEthics") /\ call.outcome = "ok"
  /\ call.code = "steal(a); steal(b);"
  /\ TermsOccurring(call.code) # {}

\* The pairs <<a, b>> of places in the ethical rule table such that the
\* replacement of rule a is the term of rule b, and code contains the term
\* of rule a and not the term of rule b.
ChainedRules(code) ==
  LET rules == eme.transformationPatterns
  IN { p \in (1..Len(rules)) \X (1..Len(rules)) :
         /\ p[1] # p[2]
         /\ rules[p[1]][2] = rules[p[2]][1]
         /\ Includes(code, rules[p[1]][1])
         /\ ~Includes(code, rules[p[2]][1]) }

\* The records of the result that the b-th ethical rule made.
RecordsOfEthicalRule(mirror, b) ==
  { i \in 1..Len(mirror.transformations) :
      /\ mirror.transformations[i].type = "ethical"
      /\ RuleIndex(eme.transformationPatterns, mirror.transformations[i]) = b }

\* C28: ethicalMirror depends on the order of rule registration.  When
\* ethical rule A was registered before ethical rule B, the replacement of
\* A is the term of B, and the text contains the term of A and not the term
\* of B, the result has a record of B; when B was registered before A, the
\* result of the same text has no record of B and the term of B is in the
\* output.
C28_OrderSensitive ==
  Mirrored
  => \A p \in ChainedRules(call.code) :
       IF p[1] < p[2]
       THEN RecordsOfEthicalRule(call.mirror, p[2]) # {}
       ELSE /\ RecordsOfEthicalRule(call.mirror, p[2]) = {}
            /\ Includes(call.mirror.transformedCode,
                        eme.transformationPatterns[p[2]][1])

\* C28's case: a text with the term of a rule A has been mirrored while a
\* rule B for the replacement of A was registered after A, and B made a
\* record.
C28_LaterRuleMatched ==
  /\ Mirrored
  /\ \E p \in ChainedRules(call.code) :
       p[1] < p[2] /\ RecordsOfEthicalRule(call.mirror, p[2]) # {}

\* The thresholds that loadEthicalThreshold puts in force.
DaoLoaded == { DaoThreshold(t) : t \in 0..MaxClock }

\* C29: when initialize() is invoked a second time while the first
\* invocation is still waiting for the threshold, the component is set up
\* once: after the first invocation has completed and
\* updateEthicalThreshold(t) has put t in force, the completion of the
\* second invocation leaves t in force, and getEthicalThreshold returns the
\* threshold of the last update.
C29_SetUpOnce ==
  [][(poh.initialized /\ poh.ethicalThreshold \notin DaoLoaded)
     => /\ pohPending' < pohPending
           => poh'.ethicalThreshold = poh.ethicalThreshold
        /\ Called("poh", "getEthicalThreshold")'
           => call'.threshold = poh.ethicalThreshold]_vars

\* C29's case: while a second initialize() is still waiting, the first has
\* completed, updateEthicalThreshold(t) has been applied and
\* getEthicalThreshold has returned t.
C29_ReturnedWhilePending ==
  /\ poh.initialized /\ pohPending > 0
  /\ Called("poh", "getEthicalThreshold") /\ call.outcome = "ok"
  /\ call.threshold \notin DaoLoaded

\* C30: in every reachable state of an initialized ProofOfHumanism, after
\* any sequence of proposeNewThreshold, updateEthicalThreshold and
\* validateTransaction calls, the value of the current ethical threshold
\* lies in 0..100.
C30_ThresholdInRange ==
  poh.initialized => poh.ethicalThreshold.value \in 0..100

\* C30's case: updateEthicalThreshold has returned on an initialized
\* component.
C30_ThresholdUpdated ==
  /\ poh.initialized /\ Called("poh", "updateEthicalThreshold")
  /\ call.outcome = "ok" /\ poh.ethicalThreshold = call.threshold
  /\ pohPending = 0

====
